---- MODULE Spec2Model ----
(***************************************************************************)
(* The graph view-state store of spanner-graph-notebook                    *)
(* (frontend/src/spanner-store.js): GraphStore wraps one GraphConfig, its  *)
(* mutators change the configuration and synchronously notify the          *)
(* listeners registered per event kind.                                    *)
(*                                                                         *)
(* One action is one call of a public method of GraphStore; JavaScript is  *)
(* single threaded and every listener is called synchronously, so a call   *)
(* is atomic.  What the listeners are handed and what they can read of the *)
(* configuration at the moment they are called is recorded in `trace`.     *)
(***************************************************************************)
EXTENDS Integers, Sequences, FiniteSets, TLC

VARIABLES
    config,                        \* GraphStore.config (the GraphConfig)
    eventListeners,                \* GraphStore.eventListeners: kind -> list
    reservedColorsByNeighborhood,  \* GraphStore.reservedColorsByNeighborhood
    lastOp,                        \* the call just made: its name and arguments
    trace,                         \* the listener invocations of that call, in order
    ret,                           \* what that call returned (or that it threw)
    calls,                         \* the calls made so far, where a run is bounded
    queried,                       \* the neighborhood ids a colour was asked for,
                                   \* in the order of their first query
    document,                      \* the page of LoaderManager: the container
                                   \* and the loader elements, in document order
    positionBefore                 \* the container's effective position before
                                   \* the first showLoader on it ("" until then)

vars == <<config, eventListeners, reservedColorsByNeighborhood, lastOp, trace, ret, calls,
          queried, document, positionBefore>>

-----------------------------------------------------------------------------
(* Bounds of the model *)

MaxListeners == 3      \* registrations over all event kinds
MaxBatch == 2          \* records in one appendGraphData call
MaxCalls == 3          \* calls in a run of Spec, where every operation is enabled
MaxTables == 2         \* edge tables of a schema
MaxNeighborhood == 3   \* neighborhood ids 0..MaxNeighborhood: one more than the palette has colours

-----------------------------------------------------------------------------
(* Values *)

Null == [kind |-> "null"]
Undefined == [kind |-> "undefined"]

\* GraphStore.EventTypes
EventTypes ==
    {"CONFIG_CHANGE", "FOCUS_OBJECT", "SELECT_OBJECT", "COLOR_SCHEME",
     "VIEW_MODE_CHANGE", "LAYOUT_MODE_CHANGE", "SHOW_LABELS",
     "NODE_EXPANSION_REQUEST", "GRAPH_DATA_UPDATE"}

\* an event type that is no key of eventListeners
InvalidEventType == "notAnEvent"

Callbacks == {"cbA", "cbB"}
\* a callback that throws when it is invoked
ThrowingCallbacks == {"cbThrows"}

ViewModes == {"DEFAULT", "SCHEMA", "TABLE"}
LayoutModes == {"force", "dagre"}
\* "" stands for a falsy argument of setColorScheme, "RANDOM" for a string
\* that names no colour scheme
ColorSchemes == {"NEIGHBORHOOD", "LABEL", "", "RANDOM"}
Directions == {"INCOMING", "OUTGOING"}

colorPalette == <<"#1A73E8", "#E52592", "#12A4AF">>
defaultColor == "rgb(100, 100, 100)"

\* Raw node records as the query layer hands them over.  labels = <<>> is a
\* record without a usable labels array.
InitialNode == [identifier |-> "n1", labels |-> <<"Person">>]
RawNodes ==
    { [identifier |-> "n1", labels |-> <<"Company">>],
      [identifier |-> "n2", labels |-> <<"Company">>],
      [identifier |-> "n3", labels |-> <<"Person">>],
      [identifier |-> "n4", labels |-> <<>>] }

RawEdges ==
    { [identifier |-> "e1", source_node_identifier |-> "n1",
       destination_node_identifier |-> "n2", labels |-> <<"WORKS_AT">>],
      [identifier |-> "e2", source_node_identifier |-> "n1",
       destination_node_identifier |-> "n1", labels |-> <<>>] }

RECURSIVE SeqsUpTo(_, _)
SeqsUpTo(S, n) ==
    IF n = 0 THEN {<<>>}
    ELSE LET shorter == SeqsUpTo(S, n - 1)
         IN shorter \cup {Append(s, x) : s \in {t \in shorter : Len(t) = n - 1}, x \in S}

\* An argument of appendGraphData: an array of raw records, or something
\* that is no array (Array.isArray fails).
NotAnArray == [isArray |-> FALSE, items |-> <<>>]
ArrayOf(items) == [isArray |-> TRUE, items |-> items]
NodeArgs(n) == {ArrayOf(s) : s \in SeqsUpTo(RawNodes, n)}
EdgeArgs(n) == {ArrayOf(s) : s \in SeqsUpTo(RawEdges, n)}
\* The argument pairs of appendGraphData with at most n records in all, and
\* those with an argument that is no array
AppendArgs(n) ==
    {a \in NodeArgs(n) \X EdgeArgs(n) : Len(a[1].items) + Len(a[2].items) <= n}
    \cup {<<NotAnArray, NotAnArray>>}
    \cup {<<NotAnArray, e>> : e \in EdgeArgs(1)}
    \cup {<<a, NotAnArray>> : a \in NodeArgs(1)}
SingleRecordArgs == AppendArgs(1)
BatchArgs == AppendArgs(MaxBatch)

-----------------------------------------------------------------------------
(* Graph objects and the identifier -> object maps.  A map is the list of   *)
(* its values in insertion order, the order Object.keys gives for string    *)
(* keys; no two entries share a uid.                                        *)

Node(raw) ==
    [kind |-> "Node", uid |-> raw.identifier, labels |-> raw.labels,
     instantiated |-> Len(raw.labels) > 0]

Edge(raw) ==
    [kind |-> "Edge", uid |-> raw.identifier, labels |-> raw.labels,
     sourceUid |-> raw.source_node_identifier,
     destinationUid |-> raw.destination_node_identifier,
     instantiated |-> Len(raw.labels) > 0]

Range(s) == {s[i] : i \in DOMAIN s}
Keys(map) == {map[i].uid : i \in DOMAIN map}
HasKey(map, uid) == uid \in Keys(map)
Get(map, uid) ==
    IF HasKey(map, uid)
    THEN map[CHOOSE i \in DOMAIN map : map[i].uid = uid]
    ELSE Undefined

\* map[obj.uid] = obj
Put(map, obj) ==
    IF HasKey(map, obj.uid)
    THEN [i \in DOMAIN map |-> IF map[i].uid = obj.uid THEN obj ELSE map[i]]
    ELSE Append(map, obj)

RECURSIVE PutAll(_, _)
PutAll(map, objs) ==
    IF objs = <<>> THEN map ELSE PutAll(Put(map, Head(objs)), Tail(objs))

\* A parse in which the first record of an identifier wins
RECURSIVE parseNodes_FirstWins(_)
parseNodes_FirstWins(nodesData) ==
    IF nodesData = <<>> THEN <<>>
    ELSE LET n == Node(nodesData[1])
             rest == parseNodes_FirstWins(Tail(nodesData))
         IN IF n.instantiated
            THEN <<n>> \o SelectSeq(rest, LAMBDA m : m.uid # n.uid)
            ELSE rest

\* GraphConfig.parseNodes / parseEdges: the instantiated objects of a batch,
\* indexed by identifier, the last record of an identifier winning.
RECURSIVE parseNodes(_)
parseNodes(nodesData) ==
    IF nodesData = <<>> THEN <<>>
    ELSE LET n == Node(nodesData[Len(nodesData)])
             rest == parseNodes(SubSeq(nodesData, 1, Len(nodesData) - 1))
         IN IF n.instantiated THEN Put(rest, n) ELSE rest

RECURSIVE parseEdges(_)
parseEdges(edgesData) ==
    IF edgesData = <<>> THEN <<>>
    ELSE LET e == Edge(edgesData[Len(edgesData)])
             rest == parseEdges(SubSeq(edgesData, 1, Len(edgesData) - 1))
         IN IF e.instantiated THEN Put(rest, e) ELSE rest

getDisplayName(obj) == obj.labels[1]

\* A colour assignment that gives every new label the first colour
RECURSIVE assignColors_AlwaysFirst(_, _)
assignColors_AlwaysFirst(nodeColors, nodes) ==
    IF nodes = <<>> THEN nodeColors
    ELSE LET label == getDisplayName(Head(nodes))
         IN assignColors_AlwaysFirst(
                IF \E i \in DOMAIN nodeColors : nodeColors[i].label = label
                THEN nodeColors
                ELSE Append(nodeColors, [label |-> label, color |-> colorPalette[1]]),
                Tail(nodes))

\* GraphConfig.assignColors: a display label seen for the first time takes
\* the next unused palette colour, palette[0] once the palette is used up.
RECURSIVE assignColors(_, _)
assignColors(nodeColors, nodes) ==
    IF nodes = <<>> THEN nodeColors
    ELSE LET label == getDisplayName(Head(nodes))
             used == Len(nodeColors)
             color == IF used < Len(colorPalette) THEN colorPalette[used + 1]
                      ELSE colorPalette[1]
         IN assignColors(
                IF \E i \in DOMAIN nodeColors : nodeColors[i].label = label
                THEN nodeColors
                ELSE Append(nodeColors, [label |-> label, color |-> color]),
                Tail(nodes))

\* An append that adds the size of the batch to the counts
configAppendGraphData_AddsBatchSize(cfg, newNodes, newEdges) ==
    LET nodes == PutAll(cfg.nodes, parseNodes(newNodes))
        edges == PutAll(cfg.edges, parseEdges(newEdges))
    IN [cfg EXCEPT !.nodes = nodes,
                   !.edges = edges,
                   !.nodeColors = assignColors(cfg.nodeColors, parseNodes(newNodes)),
                   !.nodeCount = cfg.nodeCount + Len(newNodes),
                   !.edgeCount = cfg.edgeCount + Len(newEdges)]

\* GraphConfig.appendGraphData
configAppendGraphData(cfg, newNodes, newEdges) ==
    LET nodes == PutAll(cfg.nodes, parseNodes(newNodes))
        edges == PutAll(cfg.edges, parseEdges(newEdges))
    IN [cfg EXCEPT !.nodes = nodes,
                   !.edges = edges,
                   !.nodeColors = assignColors(cfg.nodeColors, parseNodes(newNodes)),
                   !.nodeCount = Cardinality(Keys(nodes)),
                   !.edgeCount = Cardinality(Keys(edges))]

\* The schema-preview graph of the schema Person -WORKS_AT-> Company
schemaNodes ==
    << [kind |-> "Node", uid |-> "0", labels |-> <<"Person">>, instantiated |-> TRUE],
       [kind |-> "Node", uid |-> "1", labels |-> <<"Company">>, instantiated |-> TRUE] >>
schemaEdges ==
    << [kind |-> "Edge", uid |-> "0", labels |-> <<"WORKS_AT">>, sourceUid |-> "0",
        destinationUid |-> "1", instantiated |-> TRUE] >>

\* The raw schema of the schema-preview graph above
PersonTable == [name |-> "Person", labelNames |-> <<"Person">>]
CompanyTable == [name |-> "Company", labelNames |-> <<"Company">>]
\* a node table that shares a label with PersonTable
EmployeeTable == [name |-> "Employee", labelNames |-> <<"Person", "Employee">>]

EdgeTable(name, labelNames, source, destination) ==
    [name |-> name, labelNames |-> labelNames,
     sourceNodeTable |-> [nodeTableName |-> source],
     destinationNodeTable |-> [nodeTableName |-> destination]]

PersonWorksAtCompany ==
    [rawSchema |->
        [nodeTables |-> <<PersonTable, CompanyTable>>,
         edgeTables |-> <<EdgeTable("WORKS_AT", <<"WORKS_AT">>, "Person", "Company")>>]]

\* GraphConfig.parseSchema: a preview node per node table and a preview edge
\* per edge table whose two node tables the schema has, numbered from 0; no
\* schema gives empty maps.
IndexOfTable(tables, name) ==
    CHOOSE i \in DOMAIN tables : tables[i].name = name

parseSchemaNodes(schema) ==
    IF schema = Null THEN <<>>
    ELSE [i \in DOMAIN schema.rawSchema.nodeTables |->
             [kind |-> "Node", uid |-> ToString(i - 1),
              labels |-> schema.rawSchema.nodeTables[i].labelNames,
              instantiated |-> TRUE]]

parseSchemaEdges(schema) ==
    IF schema = Null THEN <<>>
    ELSE LET nodeTables == schema.rawSchema.nodeTables
             names == {nodeTables[i].name : i \in DOMAIN nodeTables}
             connected == SelectSeq(schema.rawSchema.edgeTables,
                              LAMBDA t : /\ t.sourceNodeTable.nodeTableName \in names
                                         /\ t.destinationNodeTable.nodeTableName \in names)
         IN [i \in DOMAIN connected |->
                [kind |-> "Edge", uid |-> ToString(i - 1),
                 labels |-> connected[i].labelNames,
                 sourceUid |->
                     ToString(IndexOfTable(nodeTables,
                                  connected[i].sourceNodeTable.nodeTableName) - 1),
                 destinationUid |->
                     ToString(IndexOfTable(nodeTables,
                                  connected[i].destinationNodeTable.nodeTableName) - 1),
                 instantiated |-> TRUE]]

-----------------------------------------------------------------------------
(* The store *)

\* getNodes that falls back to the live nodes in an unknown view mode
getNodes_LiveByDefault(cfg) ==
    CASE cfg.viewMode = "SCHEMA" -> cfg.schemaNodes
      [] OTHER -> cfg.nodes

\* GraphStore.getNodes / getEdges
getNodes(cfg) ==
    CASE cfg.viewMode = "DEFAULT" -> cfg.nodes
      [] cfg.viewMode = "SCHEMA" -> cfg.schemaNodes
      [] OTHER -> <<>>

getEdges(cfg) ==
    CASE cfg.viewMode = "DEFAULT" -> cfg.edges
      [] cfg.viewMode = "SCHEMA" -> cfg.schemaEdges
      [] OTHER -> <<>>

\* A dispatch that walks the listener list from its end
Dispatch_Reversed(kind, args, cfg) ==
    [i \in 1..Len(eventListeners[kind]) |->
        [kind |-> kind,
         callback |-> eventListeners[kind][Len(eventListeners[kind]) + 1 - i],
         args |-> args, seen |-> cfg]]

\* A dispatch that goes on after a callback has thrown
Dispatch_IsolatesFailures(kind, args, cfg) ==
    [i \in 1..Len(eventListeners[kind]) |->
        [kind |-> kind, callback |-> eventListeners[kind][i], args |-> args, seen |-> cfg]]

\* this.eventListeners[kind].forEach(callback => callback(args..., this.config)):
\* one invocation per registration, in list order, up to the first callback
\* that throws; `seen` is the configuration the callback can read while it
\* runs.
Dispatch(kind, args, cfg) ==
    LET listeners == eventListeners[kind]
        throwing == {i \in DOMAIN listeners : listeners[i] \in ThrowingCallbacks}
        last == IF throwing = {} THEN Len(listeners)
                ELSE CHOOSE i \in throwing : \A j \in throwing : i <= j
    IN [i \in 1..last |->
           [kind |-> kind, callback |-> listeners[i], args |-> args, seen |-> cfg]]

ReturnsUndefined == [kind |-> "undefined"]
Throws == [kind |-> "throw"]
Returns(value) == [kind |-> "value", value |-> value]

\* Whether the last callback of a dispatch threw, which ends the method that
\* dispatched, and what the method returns when nothing threw
Threw(invocations) ==
    invocations # <<>> /\ invocations[Len(invocations)].callback \in ThrowingCallbacks
Outcome(invocations, result) == IF Threw(invocations) THEN Throws ELSE result

Called(name, args) == lastOp' = [name |-> name, args |-> args]

Registered == {<<k, i>> : k \in EventTypes, i \in 1..MaxListeners}
ListenerCount ==
    Cardinality({r \in Registered : r[2] <= Len(eventListeners[r[1]])})

\* A registration that puts the callback at the head of the list
addEventListener_Prepends(eventType, callback) ==
    /\ Called("addEventListener", <<eventType, callback>>)
    /\ trace' = <<>>
    /\ IF eventType \notin DOMAIN eventListeners
       THEN /\ ret' = Throws
            /\ UNCHANGED eventListeners
       ELSE /\ ret' = ReturnsUndefined
            /\ eventListeners' =
                   [eventListeners EXCEPT ![eventType] = <<callback>> \o @]
    /\ UNCHANGED <<config, reservedColorsByNeighborhood>>

addEventListener(eventType, callback) ==
    /\ Called("addEventListener", <<eventType, callback>>)
    /\ trace' = <<>>
    /\ IF eventType \notin DOMAIN eventListeners
       THEN /\ ret' = Throws
            /\ UNCHANGED eventListeners
       ELSE /\ ret' = ReturnsUndefined
            /\ eventListeners' =
                   [eventListeners EXCEPT ![eventType] = Append(@, callback)]
    /\ UNCHANGED <<config, reservedColorsByNeighborhood>>

\* A focus setter that does nothing when handed the object already focused
focusedObjectSet_SkipsSame(cfg, graphObject) ==
    LET c == [cfg EXCEPT !.focusedGraphObject = graphObject]
    IN IF cfg.focusedGraphObject = graphObject
       THEN [cfg |-> cfg, trace |-> <<>>]
       ELSE [cfg |-> c, trace |-> Dispatch("FOCUS_OBJECT", <<graphObject>>, c)]

\* A focus setter that selects the object as well
focusedObjectSet_AlsoSelects(cfg, graphObject) ==
    LET c == [cfg EXCEPT !.focusedGraphObject = graphObject,
                         !.selectedGraphObject = graphObject]
    IN [cfg |-> c, trace |-> Dispatch("FOCUS_OBJECT", <<graphObject>>, c)]

\* The effect of setFocusedObject / setSelectedObject on a configuration, and
\* the invocations it makes: also the first two steps of setViewMode.
focusedObjectSet(cfg, graphObject) ==
    LET c == [cfg EXCEPT !.focusedGraphObject = graphObject]
    IN [cfg |-> c, trace |-> Dispatch("FOCUS_OBJECT", <<graphObject>>, c)]

selectedObjectSet(cfg, graphObject) ==
    LET c == [cfg EXCEPT !.selectedGraphObject = graphObject]
    IN [cfg |-> c, trace |-> Dispatch("SELECT_OBJECT", <<graphObject>>, c)]

\* setViewMode with the mode switched before focus and selection are cleared
setViewMode_SwitchesFirst(viewMode) ==
    /\ Called("setViewMode", <<viewMode>>)
    /\ ret' = ReturnsUndefined
    /\ IF viewMode = config.viewMode
       THEN /\ trace' = <<>>
            /\ UNCHANGED config
       ELSE LET c == [config EXCEPT !.viewMode = viewMode]
                f == focusedObjectSet(c, Null)
                s == selectedObjectSet(f.cfg, Null)
            IN /\ config' = s.cfg
               /\ trace' = f.trace \o s.trace
                              \o Dispatch("VIEW_MODE_CHANGE", <<viewMode>>, s.cfg)
    /\ UNCHANGED <<eventListeners, reservedColorsByNeighborhood>>

\* setViewMode without the early return for an unchanged mode
setViewMode_NoShortCircuit(viewMode) ==
    LET f == focusedObjectSet(config, Null)
        s == selectedObjectSet(f.cfg, Null)
        c == [s.cfg EXCEPT !.viewMode = viewMode]
    IN /\ Called("setViewMode", <<viewMode>>)
       /\ ret' = ReturnsUndefined
       /\ config' = c
       /\ trace' = f.trace \o s.trace \o Dispatch("VIEW_MODE_CHANGE", <<viewMode>>, c)
       /\ UNCHANGED <<eventListeners, reservedColorsByNeighborhood>>

\* setViewMode that clears the focus but not the selection
setViewMode_KeepsSelection(viewMode) ==
    /\ Called("setViewMode", <<viewMode>>)
    /\ ret' = ReturnsUndefined
    /\ IF viewMode = config.viewMode
       THEN /\ trace' = <<>>
            /\ UNCHANGED config
       ELSE LET f == focusedObjectSet(config, Null)
                c == [f.cfg EXCEPT !.viewMode = viewMode]
            IN /\ config' = c
               /\ trace' = f.trace \o Dispatch("VIEW_MODE_CHANGE", <<viewMode>>, c)
    /\ UNCHANGED <<eventListeners, reservedColorsByNeighborhood>>

setViewMode(viewMode) ==
    /\ Called("setViewMode", <<viewMode>>)
    /\ IF viewMode = config.viewMode
       THEN /\ trace' = <<>>
            /\ ret' = ReturnsUndefined
            /\ UNCHANGED config
       ELSE LET f == focusedObjectSet(config, Null)
                s == selectedObjectSet(f.cfg, Null)
                c == [s.cfg EXCEPT !.viewMode = viewMode]
                v == Dispatch("VIEW_MODE_CHANGE", <<viewMode>>, c)
            IN IF Threw(f.trace)
               THEN /\ config' = f.cfg
                    /\ trace' = f.trace
                    /\ ret' = Throws
               ELSE IF Threw(s.trace)
               THEN /\ config' = s.cfg
                    /\ trace' = f.trace \o s.trace
                    /\ ret' = Throws
               ELSE /\ config' = c
                    /\ trace' = f.trace \o s.trace \o v
                    /\ ret' = Outcome(v, ReturnsUndefined)
    /\ UNCHANGED <<eventListeners, reservedColorsByNeighborhood>>

showLabels(visible) ==
    LET c == [config EXCEPT !.showLabels = visible]
    IN /\ Called("showLabels", <<visible>>)
       /\ config' = c
       /\ trace' = Dispatch("SHOW_LABELS", <<visible>>, c)
       /\ ret' = Outcome(trace', ReturnsUndefined)
       /\ UNCHANGED <<eventListeners, reservedColorsByNeighborhood>>

\* setLayoutMode that returns early when the mode is the current one
setLayoutMode_SkipsUnchanged(layoutMode) ==
    LET c == [config EXCEPT !.lastLayoutMode = config.layoutMode,
                            !.layoutMode = layoutMode]
    IN /\ Called("setLayoutMode", <<layoutMode>>)
       /\ ret' = ReturnsUndefined
       /\ IF layoutMode = config.layoutMode
          THEN /\ trace' = <<>>
               /\ UNCHANGED config
          ELSE /\ config' = c
               /\ trace' = Dispatch("LAYOUT_MODE_CHANGE",
                              <<layoutMode, c.lastLayoutMode>>, c)
       /\ UNCHANGED <<eventListeners, reservedColorsByNeighborhood>>

setLayoutMode(layoutMode) ==
    LET c == [config EXCEPT !.lastLayoutMode = config.layoutMode,
                            !.layoutMode = layoutMode]
    IN /\ Called("setLayoutMode", <<layoutMode>>)
       /\ config' = c
       /\ trace' = Dispatch("LAYOUT_MODE_CHANGE", <<layoutMode, c.lastLayoutMode>>, c)
       /\ ret' = Outcome(trace', ReturnsUndefined)
       /\ UNCHANGED <<eventListeners, reservedColorsByNeighborhood>>

setFocusedObject(graphObject) ==
    LET f == focusedObjectSet(config, graphObject)
    IN /\ Called("setFocusedObject", <<graphObject>>)
       /\ config' = f.cfg
       /\ trace' = f.trace
       /\ ret' = Outcome(f.trace, ReturnsUndefined)
       /\ UNCHANGED <<eventListeners, reservedColorsByNeighborhood>>

setSelectedObject(graphObject) ==
    LET s == selectedObjectSet(config, graphObject)
    IN /\ Called("setSelectedObject", <<graphObject>>)
       /\ config' = s.cfg
       /\ trace' = s.trace
       /\ ret' = Outcome(s.trace, ReturnsUndefined)
       /\ UNCHANGED <<eventListeners, reservedColorsByNeighborhood>>

\* setColorScheme that ignores a falsy argument
setColorScheme_RejectsFalsy(colorScheme) ==
    LET c == [config EXCEPT !.colorScheme = colorScheme]
    IN /\ Called("setColorScheme", <<colorScheme>>)
       /\ ret' = ReturnsUndefined
       /\ IF colorScheme = ""
          THEN /\ trace' = <<>>
               /\ UNCHANGED config
          ELSE /\ config' = c
               /\ trace' = Dispatch("COLOR_SCHEME", <<colorScheme>>, c)
       /\ UNCHANGED <<eventListeners, reservedColorsByNeighborhood>>

setColorScheme(colorScheme) ==
    LET c == [config EXCEPT !.colorScheme = colorScheme]
    IN /\ Called("setColorScheme", <<colorScheme>>)
       /\ config' = c
       /\ trace' = Dispatch("COLOR_SCHEME", <<colorScheme>>, c)
       /\ ret' = Outcome(trace', ReturnsUndefined)
       /\ UNCHANGED <<eventListeners, reservedColorsByNeighborhood>>

\* A filter that lets every record through
NotYetIn_KeepsAll(map, data) ==
    IF data.isArray THEN data.items ELSE <<>>

\* A filter that stops after the first record it keeps
NotYetIn_StopsAfterFirst(map, data) ==
    LET kept == IF data.isArray
                THEN SelectSeq(data.items, LAMBDA d : ~HasKey(map, d.identifier))
                ELSE <<>>
    IN IF kept = <<>> THEN <<>> ELSE <<Head(kept)>>

\* The records of an argument whose identifier is no key of the map yet
NotYetIn(map, data) ==
    IF data.isArray
    THEN SelectSeq(data.items, LAMBDA d : ~HasKey(map, d.identifier))
    ELSE <<>>

appendGraphData(nodesData, edgesData) ==
    LET newNodes == NotYetIn(config.nodes, nodesData)
        newEdges == NotYetIn(config.edges, edgesData)
        c == configAppendGraphData(config, newNodes, newEdges)
    IN /\ Called("appendGraphData", <<nodesData, edgesData>>)
       /\ IF newNodes = <<>> /\ newEdges = <<>>
          THEN /\ ret' = ReturnsUndefined
               /\ trace' = <<>>
               /\ UNCHANGED config
          ELSE /\ config' = c
               /\ trace' = Dispatch("GRAPH_DATA_UPDATE",
                              << [nodes |-> getNodes(c), edges |-> getEdges(c)],
                                 [newNodes |-> newNodes, newEdges |-> newEdges] >>, c)
               /\ ret' = Outcome(trace', [kind |-> "value", newNodes |-> newNodes,
                                           newEdges |-> newEdges])
       /\ UNCHANGED <<eventListeners, reservedColorsByNeighborhood>>

\* An expansion request that also focuses the node
requestNodeExpansion_FocusesNode(node, direction, edgeLabel) ==
    LET c == [config EXCEPT !.focusedGraphObject = node]
    IN /\ Called("requestNodeExpansion", <<node, direction, edgeLabel>>)
       /\ ret' = ReturnsUndefined
       /\ config' = c
       /\ trace' = Dispatch("NODE_EXPANSION_REQUEST", <<node, direction, edgeLabel>>, c)
       /\ UNCHANGED <<eventListeners, reservedColorsByNeighborhood>>

requestNodeExpansion(node, direction, edgeLabel) ==
    /\ Called("requestNodeExpansion", <<node, direction, edgeLabel>>)
    /\ trace' = Dispatch("NODE_EXPANSION_REQUEST", <<node, direction, edgeLabel>>, config)
    /\ ret' = Outcome(trace', ReturnsUndefined)
    /\ UNCHANGED <<config, eventListeners, reservedColorsByNeighborhood>>

\* GraphStore.edgeIsConnectedToNode.  Its instanceof tests apply to the
\* negated operand and so never hold: any object with a uid passes for the node.
edgeIsConnectedToNode(edge, node) ==
    IF edge = Null \/ node = Null THEN FALSE
    ELSE edge.sourceUid = node.uid \/ edge.destinationUid = node.uid

\* The body of getEdgesOfNode: the edges of the view at the node
edgesOfNode(cfg, node) ==
    IF node = Null THEN <<>>
    ELSE SelectSeq(getEdges(cfg),
                   LAMBDA edge : edge.sourceUid = node.uid \/ edge.destinationUid = node.uid)

\* A neighbour lookup that leaves out the endpoints the live map does not hold
neighborsOfNode_DropsUnknown(cfg, node) ==
    IF node = Null THEN <<>>
    ELSE SelectSeq(
             [i \in DOMAIN edgesOfNode(cfg, node) |->
                 LET edge == edgesOfNode(cfg, node)[i]
                 IN IF edge.sourceUid = node.uid
                    THEN Get(cfg.nodes, edge.destinationUid)
                    ELSE Get(cfg.nodes, edge.sourceUid)],
             LAMBDA n : n # Undefined)

\* The body of getNeighborsOfNode: per edge at the node, what the live node
\* map holds at the other end
neighborsOfNode(cfg, node) ==
    IF node = Null THEN <<>>
    ELSE [i \in DOMAIN edgesOfNode(cfg, node) |->
             LET edge == edgesOfNode(cfg, node)[i]
             IN IF edge.sourceUid = node.uid
                THEN Get(cfg.nodes, edge.destinationUid)
                ELSE Get(cfg.nodes, edge.sourceUid)]

\* An edge design that looks at the focus before the selection
edgeDesign_FocusFirst(cfg, edge) ==
    LET selected == cfg.selectedGraphObject
        focused == cfg.focusedGraphObject
    IN IF selected # Null /\ edge = selected THEN "selected"
       ELSE IF focused # Null /\ edge = focused THEN "focused"
       ELSE IF edgeIsConnectedToNode(edge, focused)
                  \/ edgeIsConnectedToNode(edge, selected) THEN "focused"
       ELSE "default"

\* The body of getEdgeDesign: which of config.edgeDesign it returns
edgeDesign(cfg, edge) ==
    LET hasSelectedObject == cfg.selectedGraphObject # Null
        edgeIsSelected == hasSelectedObject /\ edge = cfg.selectedGraphObject
        edgeIsFocused == cfg.focusedGraphObject # Null /\ edge = cfg.focusedGraphObject
        isNeighbor == \/ edgeIsConnectedToNode(edge, cfg.focusedGraphObject)
                      \/ edgeIsConnectedToNode(edge, cfg.selectedGraphObject)
    IN IF hasSelectedObject /\ edgeIsSelected THEN "selected"
       ELSE IF hasSelectedObject
            THEN IF edgeIsConnectedToNode(edge, cfg.selectedGraphObject)
                 THEN "focused" ELSE "default"
       ELSE IF ~hasSelectedObject /\ edgeIsFocused THEN "focused"
       ELSE IF isNeighbor THEN "focused"
       ELSE "default"

RECURSIVE Flat(_)
Flat(arrays) == IF arrays = <<>> THEN <<>> ELSE Head(arrays) \o Flat(Tail(arrays))

EdgeTypes(labelNames, direction) ==
    [i \in DOMAIN labelNames |-> [label |-> labelNames[i], direction |-> direction]]

\* An enumeration of edge types that takes the direction from the wrong end
edgeTypesOfNode_FromTheOtherEnd(cfg, node) ==
    IF node = Null \/ node.kind # "Node" THEN Returns(<<>>)
    ELSE IF cfg.schema = Null THEN Throws
    ELSE LET nodeTables == cfg.schema.rawSchema.nodeTables
             edgeTables == cfg.schema.rawSchema.edgeTables
             matchingNodeTables ==
                 SelectSeq(nodeTables,
                     LAMBDA nodeTable : \E i \in DOMAIN node.labels :
                         node.labels[i] \in Range(nodeTable.labelNames))
             ofTables(nodeTable, edgeTable) ==
                 (IF edgeTable.destinationNodeTable.nodeTableName = nodeTable.name
                  THEN EdgeTypes(edgeTable.labelNames, "OUTGOING") ELSE <<>>)
                 \o (IF edgeTable.sourceNodeTable.nodeTableName = nodeTable.name
                     THEN EdgeTypes(edgeTable.labelNames, "INCOMING") ELSE <<>>)
         IN Returns(Flat([i \in DOMAIN matchingNodeTables |->
                Flat([j \in DOMAIN edgeTables |->
                    ofTables(matchingNodeTables[i], edgeTables[j])])]))

\* The body of getEdgeTypesOfNode.  Every entry is a new object, which the
\* Set holds by identity: Array.from gives all of them, in the order added.
\* Without a schema the read of config.schema.rawSchema raises a TypeError.
edgeTypesOfNode(cfg, node) ==
    IF node = Null \/ node.kind # "Node" THEN Returns(<<>>)
    ELSE IF cfg.schema = Null THEN Throws
    ELSE LET nodeTables == cfg.schema.rawSchema.nodeTables
             edgeTables == cfg.schema.rawSchema.edgeTables
             matchingNodeTables ==
                 SelectSeq(nodeTables,
                     LAMBDA nodeTable : \E i \in DOMAIN node.labels :
                         node.labels[i] \in Range(nodeTable.labelNames))
             ofTables(nodeTable, edgeTable) ==
                 (IF edgeTable.sourceNodeTable.nodeTableName = nodeTable.name
                  THEN EdgeTypes(edgeTable.labelNames, "OUTGOING") ELSE <<>>)
                 \o (IF edgeTable.destinationNodeTable.nodeTableName = nodeTable.name
                     THEN EdgeTypes(edgeTable.labelNames, "INCOMING") ELSE <<>>)
         IN Returns(Flat([i \in DOMAIN matchingNodeTables |->
                Flat([j \in DOMAIN edgeTables |->
                    ofTables(matchingNodeTables[i], edgeTables[j])])]))

\* Array.prototype.indexOf, counting from 0; -1 when x is no element
indexOf(array, x) ==
    IF \E i \in DOMAIN array : array[i] = x
    THEN (CHOOSE i \in DOMAIN array :
              array[i] = x /\ \A j \in 1..(i - 1) : array[j] # x) - 1
    ELSE -1

\* A neighborhood colouring that answers with the last colour of the palette
\* when the palette is used up
colorByNeighborhood_LastWhenUsedUp(reserved, node) ==
    IF node = Null THEN [reserved |-> reserved, ret |-> Throws]
    ELSE LET found == indexOf(reserved, node.neighborhood)
             pushed == IF found = -1 THEN Append(reserved, node.neighborhood) ELSE reserved
             index == IF found = -1 THEN Len(pushed) - 1 ELSE found
         IN [reserved |-> pushed,
             ret |-> IF index > Len(colorPalette) - 1
                     THEN Returns(colorPalette[Len(colorPalette)])
                     ELSE Returns(colorPalette[index + 1])]

\* The body of getColorForNodeByNeighborhood on the list of reserved
\* neighborhoods: the list it leaves and what it returns.  A null node makes
\* the read of node.neighborhood raise a TypeError.
colorByNeighborhood(reserved, node) ==
    IF node = Null THEN [reserved |-> reserved, ret |-> Throws]
    ELSE LET found == indexOf(reserved, node.neighborhood)
             pushed == IF found = -1 THEN Append(reserved, node.neighborhood) ELSE reserved
             index == IF found = -1 THEN Len(pushed) - 1 ELSE found
         IN [reserved |-> pushed,
             ret |-> IF index > Len(colorPalette) - 1
                     THEN Returns(colorPalette[1])
                     ELSE Returns(colorPalette[index + 1])]

\* A label colouring that goes by the last label of the node
colorByLabel_ByLastLabel(cfg, node) ==
    IF node = Null \/ node.kind # "Node" THEN defaultColor
    ELSE IF \E i \in DOMAIN cfg.nodeColors :
                cfg.nodeColors[i].label = node.labels[Len(node.labels)]
         THEN LET i == CHOOSE i \in DOMAIN cfg.nodeColors :
                           cfg.nodeColors[i].label = node.labels[Len(node.labels)]
              IN cfg.nodeColors[i].color
         ELSE defaultColor

\* The body of getColorForNodeByLabel: the colour it returns
colorByLabel(cfg, node) ==
    IF node = Null \/ node.kind # "Node" THEN defaultColor
    ELSE IF \E i \in DOMAIN cfg.nodeColors : cfg.nodeColors[i].label = getDisplayName(node)
         THEN LET i == CHOOSE i \in DOMAIN cfg.nodeColors :
                           cfg.nodeColors[i].label = getDisplayName(node)
              IN cfg.nodeColors[i].color
         ELSE defaultColor

\* A call of getNodes / getEdges
GetNodes ==
    /\ Called("getNodes", <<>>)
    /\ trace' = <<>>
    /\ ret' = Returns(getNodes(config))
    /\ UNCHANGED <<config, eventListeners, reservedColorsByNeighborhood>>

GetEdges ==
    /\ Called("getEdges", <<>>)
    /\ trace' = <<>>
    /\ ret' = Returns(getEdges(config))
    /\ UNCHANGED <<config, eventListeners, reservedColorsByNeighborhood>>

getEdgesOfNode(node) ==
    /\ Called("getEdgesOfNode", <<node>>)
    /\ trace' = <<>>
    /\ ret' = Returns(edgesOfNode(config, node))
    /\ UNCHANGED <<config, eventListeners, reservedColorsByNeighborhood>>

getNeighborsOfNode(node) ==
    /\ Called("getNeighborsOfNode", <<node>>)
    /\ trace' = <<>>
    /\ ret' = Returns(neighborsOfNode(config, node))
    /\ UNCHANGED <<config, eventListeners, reservedColorsByNeighborhood>>

getEdgeTypesOfNode(node) ==
    /\ Called("getEdgeTypesOfNode", <<node>>)
    /\ trace' = <<>>
    /\ ret' = edgeTypesOfNode(config, node)
    /\ UNCHANGED <<config, eventListeners, reservedColorsByNeighborhood>>

\* getEdgeDesign that also selects the edge
getEdgeDesign_SelectsEdge(edge) ==
    /\ Called("getEdgeDesign", <<edge>>)
    /\ trace' = <<>>
    /\ ret' = Returns(edgeDesign(config, edge))
    /\ config' = [config EXCEPT !.selectedGraphObject = edge]
    /\ UNCHANGED <<eventListeners, reservedColorsByNeighborhood>>

getEdgeDesign(edge) ==
    /\ Called("getEdgeDesign", <<edge>>)
    /\ trace' = <<>>
    /\ ret' = Returns(edgeDesign(config, edge))
    /\ UNCHANGED <<config, eventListeners, reservedColorsByNeighborhood>>

getColorForNodeByNeighborhood(node) ==
    LET r == colorByNeighborhood(reservedColorsByNeighborhood, node)
    IN /\ Called("getColorForNodeByNeighborhood", <<node>>)
       /\ trace' = <<>>
       /\ ret' = r.ret
       /\ reservedColorsByNeighborhood' = r.reserved
       /\ UNCHANGED <<config, eventListeners>>

getColorForNodeByLabel(node) ==
    /\ Called("getColorForNodeByLabel", <<node>>)
    /\ trace' = <<>>
    /\ ret' = Returns(colorByLabel(config, node))
    /\ UNCHANGED <<config, eventListeners, reservedColorsByNeighborhood>>

\* getColorForNode that answers with the label colour under an unknown scheme
getColorForNode_ByLabelWhenUnknown(node) ==
    LET r == colorByNeighborhood(reservedColorsByNeighborhood, node)
    IN /\ Called("getColorForNode", <<node>>)
       /\ trace' = <<>>
       /\ IF config.colorScheme = "NEIGHBORHOOD"
          THEN /\ ret' = r.ret
               /\ reservedColorsByNeighborhood' = r.reserved
          ELSE /\ ret' = Returns(colorByLabel(config, node))
               /\ UNCHANGED reservedColorsByNeighborhood
       /\ UNCHANGED <<config, eventListeners>>

getColorForNode(node) ==
    LET r == colorByNeighborhood(reservedColorsByNeighborhood, node)
    IN /\ Called("getColorForNode", <<node>>)
       /\ trace' = <<>>
       /\ CASE config.colorScheme = "NEIGHBORHOOD" ->
                 /\ ret' = r.ret
                 /\ reservedColorsByNeighborhood' = r.reserved
            [] config.colorScheme = "LABEL" ->
                 /\ ret' = Returns(colorByLabel(config, node))
                 /\ UNCHANGED reservedColorsByNeighborhood
            [] OTHER ->
                 /\ ret' = Throws
                 /\ UNCHANGED reservedColorsByNeighborhood
       /\ UNCHANGED <<config, eventListeners>>

-----------------------------------------------------------------------------
(* The specification *)

\* The page before LoaderManager has shown anything: a container, its inline
\* style and the position its stylesheet gives it, no loader element and no
\* keyframes style in the head.
ContainerElement(datasetId, stylePosition, sheetPosition, contentHeight) ==
    [dataset |-> [id |-> datasetId],
     style |-> [position |-> stylePosition, minHeight |-> ""],
     sheet |-> [position |-> sheetPosition],
     contentHeight |-> contentHeight,
     children |-> <<>>]
PageOf(container) == [keyframes |-> FALSE, container |-> container, body |-> <<>>]
NoLoaders ==
    /\ document = PageOf(ContainerElement("c1", "", "static", 100))
    /\ positionBefore = ""

\* new GraphStore(new GraphConfig({nodesData: [n1], edgesData: [], schemaData}))
InitialConfig ==
    configAppendGraphData(
        [nodes |-> <<>>, edges |-> <<>>,
         nodeCount |-> 0, edgeCount |-> 0,
         schema |-> PersonWorksAtCompany,
         schemaNodes |-> schemaNodes, schemaEdges |-> schemaEdges,
         schemaNodeCount |-> Len(schemaNodes), schemaEdgeCount |-> Len(schemaEdges),
         nodeColors |-> <<>>,
         colorScheme |-> "NEIGHBORHOOD",
         viewMode |-> "DEFAULT",
         layoutMode |-> "force",
         lastLayoutMode |-> "force",
         showLabels |-> FALSE,
         focusedGraphObject |-> Null,
         selectedGraphObject |-> Null],
        <<InitialNode>>, <<>>)

Init ==
    /\ config = InitialConfig
    /\ eventListeners = [k \in EventTypes |-> <<>>]
    /\ reservedColorsByNeighborhood = <<>>
    /\ lastOp = [name |-> "constructor", args |-> <<>>]
    /\ trace = <<>>
    /\ ret = ReturnsUndefined
    /\ calls = 0
    /\ queried = <<>>
    /\ NoLoaders

\* The objects a renderer can hand to setFocusedObject / setSelectedObject
\* and requestNodeExpansion: those of the current view.
VisibleNodes == Range(getNodes(config))
VisibleObjects == VisibleNodes \cup Range(getEdges(config))
EdgeLabelArgs == {"WORKS_AT", "undefined"}

\* A registration, while the model's bound on registrations allows one
Register(kinds, callbacks) ==
    \E t \in kinds \cup {InvalidEventType}, cb \in callbacks :
        /\ ListenerCount < MaxListeners
        /\ addEventListener(t, cb)

\* The record of the colour queries by neighborhood: a call of
\* getColorForNodeByNeighborhood that returned a colour, made directly or by
\* getColorForNode under the NEIGHBORHOOD scheme, for an id not asked for
\* before, puts the id at the end.
Observed ==
    LET byNeighborhood ==
            /\ ret'.kind = "value"
            /\ \/ lastOp'.name = "getColorForNodeByNeighborhood"
               \/ lastOp'.name = "getColorForNode" /\ config.colorScheme = "NEIGHBORHOOD"
    IN queried' = IF byNeighborhood /\ lastOp'.args[1].neighborhood \notin Range(queried)
                  THEN Append(queried, lastOp'.args[1].neighborhood)
                  ELSE queried

\* A call that counts against the bound of a run, and one that does not
Counted(A) ==
    calls < MaxCalls /\ calls' = calls + 1 /\ A /\ Observed
        /\ UNCHANGED <<document, positionBefore>>
Free(A) == A /\ UNCHANGED calls /\ Observed /\ UNCHANGED <<document, positionBefore>>

\* Every operation of the store, in runs of at most MaxCalls calls; one call
\* of appendGraphData brings at most one record.
Next ==
    \/ Counted(Register(EventTypes, Callbacks))
    \/ \E m \in ViewModes : Counted(setViewMode(m))
    \/ \E v \in BOOLEAN : Counted(showLabels(v))
    \/ \E m \in LayoutModes : Counted(setLayoutMode(m))
    \/ \E o \in VisibleObjects \cup {Null} : Counted(setFocusedObject(o))
    \/ \E o \in VisibleObjects \cup {Null} : Counted(setSelectedObject(o))
    \/ \E s \in ColorSchemes : Counted(setColorScheme(s))
    \/ \E a \in SingleRecordArgs : Counted(appendGraphData(a[1], a[2]))
    \/ \E n \in VisibleNodes, d \in Directions, l \in EdgeLabelArgs :
          Counted(requestNodeExpansion(n, d, l))

Spec == Init /\ [][Next]_vars

\* The view mode with focus and selection, and their listeners: runs of any length
ViewModeKinds == {"FOCUS_OBJECT", "SELECT_OBJECT", "VIEW_MODE_CHANGE"}
NextViewMode ==
    \/ Free(Register(ViewModeKinds, Callbacks))
    \/ \E m \in ViewModes : Free(setViewMode(m))
    \/ \E o \in VisibleObjects \cup {Null} : Free(setFocusedObject(o))
    \/ \E o \in VisibleObjects \cup {Null} : Free(setSelectedObject(o))

SpecViewMode == Init /\ [][NextViewMode]_vars

\* The growth of the live graph, in any view mode: runs of any length
DataKinds == {"GRAPH_DATA_UPDATE"}
NextData ==
    \/ Free(Register(DataKinds, {"cbA"}))
    \/ \E m \in ViewModes : Free(setViewMode(m))
    \/ \E a \in BatchArgs : Free(appendGraphData(a[1], a[2]))

SpecData == Init /\ [][NextData]_vars

\* The plain settings and the expansion request: runs of any length
SettingsKinds == {"LAYOUT_MODE_CHANGE", "SHOW_LABELS", "COLOR_SCHEME", "NODE_EXPANSION_REQUEST"}
NextSettings ==
    \/ Free(Register(SettingsKinds, Callbacks))
    \/ \E v \in BOOLEAN : Free(showLabels(v))
    \/ \E m \in LayoutModes : Free(setLayoutMode(m))
    \/ \E s \in ColorSchemes : Free(setColorScheme(s))
    \/ \E n \in VisibleNodes, d \in Directions, l \in EdgeLabelArgs :
          Free(requestNodeExpansion(n, d, l))

SpecSettings == Init /\ [][NextSettings]_vars

\* The nodes a renderer asks a colour for: one of every neighborhood, of a
\* label that has a colour; one of a label that has none; and no node at all.
ColorArgs ==
    { [kind |-> "Node", uid |-> "q", labels |-> <<"Person">>, instantiated |-> TRUE,
       neighborhood |-> k] : k \in 0..MaxNeighborhood }
    \cup { [kind |-> "Node", uid |-> "q", labels |-> <<"Movie">>, instantiated |-> TRUE,
            neighborhood |-> 0] }
    \cup {Null}

\* The colour queries under every colour scheme, with the expansion request:
\* runs of any length
ColorKinds == {"NODE_EXPANSION_REQUEST"}
NextColors ==
    \/ Free(Register(ColorKinds, {"cbA"}))
    \/ \E s \in ColorSchemes : Free(setColorScheme(s))
    \/ \E n \in ColorArgs : Free(getColorForNode(n))
    \/ \E n \in ColorArgs : Free(getColorForNodeByNeighborhood(n))
    \/ \E n \in ColorArgs : Free(getColorForNodeByLabel(n))
    \/ \E n \in VisibleNodes, d \in Directions, l \in EdgeLabelArgs :
          Free(requestNodeExpansion(n, d, l))

SpecColors == Init /\ [][NextColors]_vars

\* An edge from a node to itself, and an edge that is in no map but leaves
\* the node whose uid the schema edge has
LoopEdge ==
    [identifier |-> "e3", source_node_identifier |-> "n1",
     destination_node_identifier |-> "n1", labels |-> <<"KNOWS">>]
StrayEdge ==
    [identifier |-> "e9", source_node_identifier |-> "0",
     destination_node_identifier |-> "n3", labels |-> <<"KNOWS">>]

\* The edges a renderer asks the design of: those of the view, and edges
\* that are not (or not yet) in it
EdgeQueryArgs ==
    Range(getEdges(config)) \cup {Edge(r) : r \in RawEdges \cup {LoopEdge, StrayEdge}}

\* The nodes a renderer asks the edges and neighbours of: those of the view,
\* nodes that are not (or not yet) in it, and no node at all
NodeQueryArgs ==
    VisibleNodes \cup {Node(r) : r \in {n \in RawNodes : Len(n.labels) > 0}} \cup {Null}

\* The queries on the view, as focus, selection, view mode and the live
\* graph change: runs of any length
NextQueries ==
    \/ \E m \in ViewModes : Free(setViewMode(m))
    \/ \E o \in VisibleObjects \cup {Null} : Free(setFocusedObject(o))
    \/ \E o \in VisibleObjects \cup {Null} : Free(setSelectedObject(o))
    \/ \E a \in SingleRecordArgs \cup {<<ArrayOf(<<>>), ArrayOf(<<LoopEdge>>)>>} :
          Free(appendGraphData(a[1], a[2]))
    \/ \E e \in EdgeQueryArgs : Free(getEdgeDesign(e))
    \/ Free(GetNodes)
    \/ Free(GetEdges)
    \/ \E n \in NodeQueryArgs : Free(getEdgesOfNode(n))
    \/ \E n \in NodeQueryArgs : Free(getNeighborsOfNode(n))

SpecQueries == Init /\ [][NextQueries]_vars

\* The schemas a store is constructed with: the node tables Person and
\* Company, with or without Employee, and up to MaxTables edge tables, each
\* with one or two labels between two of the three node table names (an
\* edge table of Employee dangles in a schema without that node table); and
\* no schema.
EdgeLabelNames == {<<"WORKS_AT">>, <<"WORKS_AT", "KNOWS">>}
NodeTableNames == {"Person", "Company", "Employee"}
EdgeTableShapes == EdgeLabelNames \X NodeTableNames \X NodeTableNames
Schemas ==
    { [rawSchema |->
          [nodeTables |-> nodeTables,
           edgeTables |-> [i \in DOMAIN shapes |->
               EdgeTable("E" \o ToString(i), shapes[i][1], shapes[i][2], shapes[i][3])]]] :
        nodeTables \in {<<PersonTable, CompanyTable>>,
                        <<PersonTable, CompanyTable, EmployeeTable>>},
        shapes \in SeqsUpTo(EdgeTableShapes, MaxTables) }
    \cup {PersonWorksAtCompany, Null}

\* new GraphStore(new GraphConfig({nodesData: [n1], edgesData: [], schemaData}))
\* for every schemaData
InitSchema ==
    /\ \E schema \in Schemas :
          config = [InitialConfig EXCEPT !.schema = schema,
                                         !.schemaNodes = parseSchemaNodes(schema),
                                         !.schemaEdges = parseSchemaEdges(schema),
                                         !.schemaNodeCount = Len(parseSchemaNodes(schema)),
                                         !.schemaEdgeCount = Len(parseSchemaEdges(schema))]
    /\ eventListeners = [k \in EventTypes |-> <<>>]
    /\ reservedColorsByNeighborhood = <<>>
    /\ lastOp = [name |-> "constructor", args |-> <<>>]
    /\ trace = <<>>
    /\ ret = ReturnsUndefined
    /\ calls = 0
    /\ queried = <<>>
    /\ NoLoaders

\* The objects a renderer asks the edge types of: nodes of one label, of two
\* and of a label no table has, an edge, and no object at all
TypeQueryArgs ==
    { [kind |-> "Node", uid |-> "q", labels |-> l, instantiated |-> TRUE] :
        l \in {<<"Person">>, <<"Company">>, <<"Person", "Company">>, <<"Movie">>} }
    \cup {Edge(LoopEdge), Null}

\* The edge types of a node, for every schema
NextSchema ==
    \E n \in TypeQueryArgs : Free(getEdgeTypesOfNode(n))

SpecSchema == InitSchema /\ [][NextSchema]_vars

\* Raw node records of more first labels than the palette has colours: two
\* with the same first label, and three that carry the same identifier, one
\* of them without labels
LabelledNodes ==
    { [identifier |-> "p1", labels |-> <<"Person">>],
      [identifier |-> "p2", labels |-> <<"Company">>],
      [identifier |-> "p2", labels |-> <<"Movie">>],
      [identifier |-> "p2", labels |-> <<>>],
      [identifier |-> "p3", labels |-> <<"Movie">>],
      [identifier |-> "p4", labels |-> <<"City">>],
      [identifier |-> "p5", labels |-> <<"Person", "Actor">>] }

\* The batches of these records: one record, or two that carry the same
\* identifier, or two of which the first has no labels
LabelledBatches ==
    {<<r>> : r \in LabelledNodes}
    \cup {b \in LabelledNodes \X LabelledNodes :
             /\ b[1] # b[2]
             /\ b[1].identifier = b[2].identifier \/ Len(b[1].labels) = 0}

\* new GraphStore(new GraphConfig({nodesData: [], edgesData: [], schemaData}))
EmptyGraphConfig ==
    [InitialConfig EXCEPT !.nodes = <<>>, !.nodeColors = <<>>, !.nodeCount = 0]

InitEmptyGraph ==
    /\ config = EmptyGraphConfig
    /\ eventListeners = [k \in EventTypes |-> <<>>]
    /\ reservedColorsByNeighborhood = <<>>
    /\ lastOp = [name |-> "constructor", args |-> <<>>]
    /\ trace = <<>>
    /\ ret = ReturnsUndefined
    /\ calls = 0
    /\ queried = <<>>
    /\ NoLoaders

\* The ingestion of labelled nodes into a graph that starts empty, and the
\* label colours, in every view mode and under every colour scheme: runs of
\* any length
NextLabels ==
    \/ \E m \in ViewModes : Free(setViewMode(m))
    \/ \E b \in LabelledBatches : Free(appendGraphData(ArrayOf(b), ArrayOf(<<>>)))
    \/ \E n \in VisibleNodes : Free(getColorForNodeByLabel(n))
    \/ \E s \in ColorSchemes : Free(setColorScheme(s))

SpecLabels == InitEmptyGraph /\ [][NextLabels]_vars

\* Every read of the store, in every view mode and under every colour
\* scheme, with listeners registered, for nodes of two neighborhoods: runs of
\* any length
ReadColorArgs == {n \in ColorArgs : n = Null \/ n.neighborhood <= 1}
NextReads ==
    \/ Free(Register({"COLOR_SCHEME"}, {"cbA"}))
    \/ \E m \in ViewModes : Free(setViewMode(m))
    \/ \E s \in ColorSchemes : Free(setColorScheme(s))
    \/ Free(GetNodes)
    \/ Free(GetEdges)
    \/ \E n \in NodeQueryArgs : Free(getEdgesOfNode(n))
    \/ \E n \in NodeQueryArgs : Free(getNeighborsOfNode(n))
    \/ \E n \in NodeQueryArgs : Free(getEdgeTypesOfNode(n))
    \/ \E n \in ReadColorArgs : Free(getColorForNode(n))
    \/ \E e \in EdgeQueryArgs : Free(getEdgeDesign(e))

SpecReads == Init /\ [][NextReads]_vars

-----------------------------------------------------------------------------
(* Properties.  An action property reads the configuration before the call *)
(* unprimed and the call, its listener invocations and its result primed.  *)

IsPrefix(s, t) == Len(s) <= Len(t) /\ SubSeq(t, 1, Len(s)) = s

\* The records of an argument that carry an identifier the map does not hold
Remaining(data, map) ==
    IF data.isArray
    THEN {i \in DOMAIN data.items : data.items[i].identifier \notin Keys(map)}
    ELSE {}

KnownIn(records, map) ==
    \E i \in DOMAIN records : records[i].identifier \in Keys(map)

\* C1: appendGraphData drops every record whose identifier is already a key
\* of the live node (resp. edge) map: no such record is reported to a
\* listener or returned.  When no record of either argument remains, the call
\* changes nothing of the store or the configuration, invokes no listener and
\* returns nothing.
C1_AppendDropsKnownAndReturnsEarly ==
    [][lastOp'.name = "appendGraphData" =>
        LET nodesData == lastOp'.args[1]
            edgesData == lastOp'.args[2]
        IN /\ ret'.kind = "value" =>
                /\ ~KnownIn(ret'.newNodes, config.nodes)
                /\ ~KnownIn(ret'.newEdges, config.edges)
           /\ \A i \in DOMAIN trace' :
                /\ ~KnownIn(trace'[i].args[2].newNodes, config.nodes)
                /\ ~KnownIn(trace'[i].args[2].newEdges, config.edges)
           /\ (Remaining(nodesData, config.nodes) = {}
                  /\ Remaining(edgesData, config.edges) = {}) =>
                /\ config' = config
                /\ eventListeners' = eventListeners
                /\ reservedColorsByNeighborhood' = reservedColorsByNeighborhood
                /\ trace' = <<>>
                /\ ret'.kind = "undefined"
    ]_vars

\* C1's case: a call whose records were all known already, with a
\* GRAPH_DATA_UPDATE listener registered that was not invoked
C1_Witness ==
    /\ lastOp.name = "appendGraphData"
    /\ lastOp.args[1].isArray /\ lastOp.args[1].items # <<>>
    /\ lastOp.args[2].isArray /\ lastOp.args[2].items # <<>>
    /\ Remaining(lastOp.args[1], config.nodes) = {}
    /\ Remaining(lastOp.args[2], config.edges) = {}
    /\ eventListeners["GRAPH_DATA_UPDATE"] # <<>>
    /\ trace = <<>>
    /\ ret.kind = "undefined"

WellFormed(data) ==
    data.isArray /\ \A i \in DOMAIN data.items : Len(data.items[i].labels) > 0

\* C2: appendGraphData called a second time with the same well-formed data
\* leaves nodeCount and edgeCount as the first call left them.
C2_AppendTwiceKeepsCounts ==
    [][(/\ lastOp.name = "appendGraphData"
        /\ lastOp'.name = "appendGraphData"
        /\ lastOp'.args = lastOp.args
        /\ WellFormed(lastOp.args[1])
        /\ WellFormed(lastOp.args[2]))
       => /\ config'.nodeCount = config.nodeCount
          /\ config'.edgeCount = config.edgeCount
    ]_vars

\* C2's case: a well-formed batch of two new nodes and an edge submitted
\* again after all of it was stored
C2_Witness ==
    /\ lastOp.name = "appendGraphData"
    /\ WellFormed(lastOp.args[1]) /\ WellFormed(lastOp.args[2])
    /\ \E i \in DOMAIN lastOp.args[1].items :
           lastOp.args[1].items[i].identifier # InitialNode.identifier
    /\ Remaining(lastOp.args[1], config.nodes) = {}
    /\ Remaining(lastOp.args[2], config.edges) = {}
    /\ ret.kind = "undefined"
    /\ config.nodeCount > 1

\* C3: no operation of the store removes a key of the live node map or of
\* the live edge map, or binds it to another object.
C3_LiveGraphAppendOnly ==
    [][/\ \A i \in DOMAIN config.nodes :
            Get(config'.nodes, config.nodes[i].uid) = config.nodes[i]
       /\ \A i \in DOMAIN config.edges :
            Get(config'.edges, config.edges[i].uid) = config.edges[i]
    ]_vars

\* C3's case: appendGraphData was handed a record with the identifier of a
\* stored node and other labels, and the stored node is still the one bound
C3_Witness ==
    /\ lastOp.name = "appendGraphData"
    /\ \E i \in DOMAIN lastOp.args[1].items :
          /\ lastOp.args[1].items[i].identifier = InitialNode.identifier
          /\ lastOp.args[1].items[i].labels # InitialNode.labels
    /\ Get(config.nodes, InitialNode.identifier) = Node(InitialNode)

\* The listeners of a kind as the invocations a dispatch of that kind makes
Invocations(kind) ==
    [i \in DOMAIN eventListeners[kind] |-> <<kind, eventListeners[kind][i]>>]
\* The invocations a call made: which callback, as a listener of which kind
Invoked(t) == [i \in DOMAIN t |-> <<t[i].kind, t[i].callback>>]

\* C4: setViewMode with another mode than the current one notifies the
\* FOCUS_OBJECT listeners with null, then the SELECT_OBJECT listeners with
\* null, all of them reading the old view mode; then the VIEW_MODE_CHANGE
\* listeners with the new mode, reading the new mode and focus and selection
\* null; and the configuration ends with the new mode.
C4_ViewModeChangeOrder ==
    [][(lastOp'.name = "setViewMode" /\ lastOp'.args[1] # config.viewMode) =>
        LET mode == lastOp'.args[1]
            nF == Len(eventListeners["FOCUS_OBJECT"])
            nS == Len(eventListeners["SELECT_OBJECT"])
            nV == Len(eventListeners["VIEW_MODE_CHANGE"])
        IN /\ Invoked(trace') = Invocations("FOCUS_OBJECT")
                                  \o Invocations("SELECT_OBJECT")
                                  \o Invocations("VIEW_MODE_CHANGE")
           /\ \A i \in 1..nF :
                /\ trace'[i].args = <<Null>>
                /\ trace'[i].seen.viewMode = config.viewMode
                /\ trace'[i].seen.focusedGraphObject = Null
           /\ \A i \in (nF + 1)..(nF + nS) :
                /\ trace'[i].args = <<Null>>
                /\ trace'[i].seen.viewMode = config.viewMode
                /\ trace'[i].seen.selectedGraphObject = Null
           /\ \A i \in (nF + nS + 1)..(nF + nS + nV) :
                /\ trace'[i].args = <<mode>>
                /\ trace'[i].seen.viewMode = mode
                /\ trace'[i].seen.focusedGraphObject = Null
                /\ trace'[i].seen.selectedGraphObject = Null
           /\ config'.viewMode = mode
    ]_vars

\* C4's case: a mode change with listeners of the three kinds registered and
\* an object selected before the call
C4_Witness ==
    /\ lastOp.name = "setViewMode"
    /\ Len(trace) = 3
    /\ trace[1].kind = "FOCUS_OBJECT"
    /\ trace[2].kind = "SELECT_OBJECT"
    /\ trace[3].kind = "VIEW_MODE_CHANGE"
    /\ trace[1].seen.selectedGraphObject # Null
    /\ trace[1].seen.viewMode # config.viewMode

\* C5: setViewMode with the current mode changes nothing and invokes no
\* listener.
C5_SameViewModeIsNoOp ==
    [][(lastOp'.name = "setViewMode" /\ lastOp'.args[1] = config.viewMode) =>
        /\ config' = config
        /\ eventListeners' = eventListeners
        /\ reservedColorsByNeighborhood' = reservedColorsByNeighborhood
        /\ trace' = <<>>
    ]_vars

\* C5's case: setViewMode was called with the mode the store is in while an
\* object was focused and listeners of the three kinds were registered: the
\* focus is still there and nothing was invoked
C5_Witness ==
    /\ lastOp.name = "setViewMode"
    /\ lastOp.args[1] = config.viewMode
    /\ config.focusedGraphObject # Null
    /\ config.selectedGraphObject # Null
    /\ \A k \in {"FOCUS_OBJECT", "SELECT_OBJECT", "VIEW_MODE_CHANGE"} :
          eventListeners[k] # <<>>
    /\ trace = <<>>

\* C6 as stated: after any setViewMode call, whatever the mode, focus and
\* selection are both null.
C6_AfterAnySetViewModeNothingFocused ==
    lastOp.name = "setViewMode" =>
        /\ config.focusedGraphObject = Null
        /\ config.selectedGraphObject = Null

\* C6, amended: after a setViewMode call with another mode than the current
\* one, whatever was focused or selected, focus and selection are both null.
C6_ViewModeChangeClearsFocusAndSelection ==
    [][(lastOp'.name = "setViewMode" /\ lastOp'.args[1] # config.viewMode) =>
        /\ config'.focusedGraphObject = Null
        /\ config'.selectedGraphObject = Null
    ]_vars

\* C6's case: a mode change made while an object was focused and an object
\* was selected (as the first FOCUS_OBJECT listener still read the selection,
\* and the focus is what the call before had set)
C6_Witness ==
    /\ lastOp.name = "setViewMode"
    /\ trace # <<>>
    /\ trace[1].kind = "FOCUS_OBJECT"
    /\ trace[1].seen.selectedGraphObject # Null
    /\ trace[1].seen.viewMode # config.viewMode
    /\ config.focusedGraphObject = Null
    /\ config.selectedGraphObject = Null

\* The event kind of each mutator
OwnKind ==
    [setViewMode |-> "VIEW_MODE_CHANGE",
     showLabels |-> "SHOW_LABELS",
     setLayoutMode |-> "LAYOUT_MODE_CHANGE",
     setFocusedObject |-> "FOCUS_OBJECT",
     setSelectedObject |-> "SELECT_OBJECT",
     setColorScheme |-> "COLOR_SCHEME",
     appendGraphData |-> "GRAPH_DATA_UPDATE",
     requestNodeExpansion |-> "NODE_EXPANSION_REQUEST"]

C8_ListenersReadTheFinalConfiguration ==
    \A i \in DOMAIN trace : trace[i].seen = config

\* C9: addEventListener with an event type that is none of the nine raises
\* and leaves every list as it was; with one of the nine it appends the
\* callback to the end of that kind's list and leaves the other lists as they
\* were; and no operation removes or reorders a registered listener.
C9_RegistrationAppendsOrThrows ==
    [][/\ lastOp'.name = "addEventListener" =>
            LET eventType == lastOp'.args[1]
                callback == lastOp'.args[2]
            IN IF eventType \in EventTypes
               THEN /\ ret'.kind # "throw"
                    /\ eventListeners'[eventType] =
                           Append(eventListeners[eventType], callback)
                    /\ \A k \in EventTypes \ {eventType} :
                           eventListeners'[k] = eventListeners[k]
               ELSE /\ ret'.kind = "throw"
                    /\ eventListeners' = eventListeners
       /\ DOMAIN eventListeners' = EventTypes
       /\ Cardinality(EventTypes) = 9
       /\ \A k \in EventTypes : IsPrefix(eventListeners[k], eventListeners'[k])
    ]_vars

\* C9's case: a second, different callback registered for a kind that had
\* one, which is now behind the first
C9_Witness ==
    /\ lastOp.name = "addEventListener"
    /\ lastOp.args[1] \in EventTypes
    /\ Len(eventListeners[lastOp.args[1]]) = 2
    /\ eventListeners[lastOp.args[1]][2] = lastOp.args[2]
    /\ eventListeners[lastOp.args[1]][1] # lastOp.args[2]

\* C10: setLayoutMode(m) leaves lastLayoutMode at the layout mode before the
\* call and layoutMode at m, and hands every LAYOUT_MODE_CHANGE listener m
\* and that previous mode, also when m is the current layout mode.
C10_LayoutModeRecordsPrevious ==
    [][lastOp'.name = "setLayoutMode" =>
        LET m == lastOp'.args[1]
        IN /\ config'.lastLayoutMode = config.layoutMode
           /\ config'.layoutMode = m
           /\ Invoked(trace') = Invocations("LAYOUT_MODE_CHANGE")
           /\ \A i \in DOMAIN trace' :
                /\ trace'[i].args = <<m, config.layoutMode>>
                /\ trace'[i].seen.layoutMode = m
                /\ trace'[i].seen.lastLayoutMode = config.layoutMode
    ]_vars

\* C10's case: setLayoutMode called with the mode the store was in already
\* (another than the initial one), with a listener registered, which was
\* handed that mode twice
C10_Witness ==
    /\ lastOp.name = "setLayoutMode"
    /\ lastOp.args[1] # InitialConfig.layoutMode
    /\ trace # <<>>
    /\ trace[1].args = <<lastOp.args[1], lastOp.args[1]>>
    /\ config.lastLayoutMode = config.layoutMode

\* C11: setFocusedObject(x) leaves focusedGraphObject at x and hands x to
\* every FOCUS_OBJECT listener, and setSelectedObject(x) does the same with
\* selectedGraphObject and the SELECT_OBJECT listeners, whatever x is: an
\* object, null, or the value the field holds already.
C11_FocusAndSelectionSetUnconditionally ==
    [][/\ lastOp'.name = "setFocusedObject" =>
            /\ config'.focusedGraphObject = lastOp'.args[1]
            /\ Invoked(trace') = Invocations("FOCUS_OBJECT")
            /\ \A i \in DOMAIN trace' :
                 /\ trace'[i].args = <<lastOp'.args[1]>>
                 /\ trace'[i].seen.focusedGraphObject = lastOp'.args[1]
       /\ lastOp'.name = "setSelectedObject" =>
            /\ config'.selectedGraphObject = lastOp'.args[1]
            /\ Invoked(trace') = Invocations("SELECT_OBJECT")
            /\ \A i \in DOMAIN trace' :
                 /\ trace'[i].args = <<lastOp'.args[1]>>
                 /\ trace'[i].seen.selectedGraphObject = lastOp'.args[1]
    ]_vars

\* C11's case: setFocusedObject(null) called while nothing was focused, and
\* the FOCUS_OBJECT listener was notified with null all the same.  (In the
\* TABLE view nothing is visible to focus, and entering it cleared the focus,
\* so the focus was null before the call.)
C11_Witness ==
    /\ config.viewMode = "TABLE"
    /\ lastOp.name = "setFocusedObject"
    /\ lastOp.args[1] = Null
    /\ trace # <<>>
    /\ trace[1].kind = "FOCUS_OBJECT"
    /\ trace[1].args = <<Null>>

\* C12: setColorScheme(s) leaves config.colorScheme at s and hands s to every
\* COLOR_SCHEME listener, for every s: also for a falsy s and for an s that
\* names no colour scheme; the call does not raise.
C12_ColorSchemeStoredWhateverItIs ==
    [][lastOp'.name = "setColorScheme" =>
        /\ config'.colorScheme = lastOp'.args[1]
        /\ ret'.kind # "throw"
        /\ Invoked(trace') = Invocations("COLOR_SCHEME")
        /\ \A i \in DOMAIN trace' :
             /\ trace'[i].args = <<lastOp'.args[1]>>
             /\ trace'[i].seen.colorScheme = lastOp'.args[1]
    ]_vars

\* C12's case: a falsy colour scheme was stored and a listener was handed it
C12_Witness ==
    /\ lastOp.name = "setColorScheme"
    /\ lastOp.args[1] = ""
    /\ config.colorScheme = ""
    /\ trace # <<>>
    /\ trace[1].kind = "COLOR_SCHEME"
    /\ trace[1].args = <<"">>

\* C13: requestNodeExpansion(node, direction, edgeLabel) hands (node,
\* direction, edgeLabel) to every NODE_EXPANSION_REQUEST listener and changes
\* nothing of the store or the configuration: not the live maps, the schema
\* maps, focus, selection, the modes, the listener lists or the colour
\* reservations.
C13_ExpansionRequestOnlyNotifies ==
    [][lastOp'.name = "requestNodeExpansion" =>
        /\ config' = config
        /\ eventListeners' = eventListeners
        /\ reservedColorsByNeighborhood' = reservedColorsByNeighborhood
        /\ Invoked(trace') = Invocations("NODE_EXPANSION_REQUEST")
        /\ \A i \in DOMAIN trace' :
             /\ trace'[i].args = lastOp'.args
             /\ trace'[i].seen = config
    ]_vars

\* C13's case: an expansion request that reached a listener, made when
\* colours were reserved and the colour scheme was not the initial one
C13_Witness ==
    /\ lastOp.name = "requestNodeExpansion"
    /\ trace # <<>>
    /\ trace[1].args = lastOp.args
    /\ reservedColorsByNeighborhood # <<>>
    /\ config.colorScheme # InitialConfig.colorScheme

\* The design the four rules give an edge, in their order
DesignByPriority(selection, focus, edge) ==
    LET touches(o) == edge.sourceUid = o.uid \/ edge.destinationUid = o.uid
    IN IF selection # Null /\ selection = edge THEN "selected"
       ELSE IF selection # Null /\ touches(selection) THEN "focused"
       ELSE IF selection # Null THEN "default"
       ELSE IF focus # Null /\ (focus = edge \/ touches(focus)) THEN "focused"
       ELSE "default"

\* C14: getEdgeDesign(edge) is: selected when the edge is the selection;
\* else focused when there is a selection whose uid is the edge's source or
\* destination uid; else default when there is a selection; else focused when
\* the edge is the focus or the focus's uid is the edge's source or
\* destination uid; else default.  With a selection the result is the same
\* whatever is focused.
C14_EdgeDesignByPriority ==
    lastOp.name = "getEdgeDesign" =>
        LET edge == lastOp.args[1]
        IN /\ ret.value = DesignByPriority(config.selectedGraphObject,
                                           config.focusedGraphObject, edge)
           /\ config.selectedGraphObject # Null =>
                \A f \in VisibleObjects \cup {Null, edge} :
                    edgeDesign([config EXCEPT !.focusedGraphObject = f], edge) = ret.value

\* C14's case: the design of the focused edge was asked for while a node it
\* does not touch was selected, and it is the default design
C14_Witness ==
    /\ lastOp.name = "getEdgeDesign"
    /\ config.selectedGraphObject # Null
    /\ config.focusedGraphObject = lastOp.args[1]
    /\ ret.value = "default"

\* C15: getNodes() and getEdges() return the values of the live maps in the
\* DEFAULT view, the values of the schema maps in the SCHEMA view, and an
\* empty list in any other view mode.
C15_ViewSelectsTheMap ==
    /\ lastOp.name = "getNodes" =>
         ret.value = IF config.viewMode = "DEFAULT" THEN config.nodes
                     ELSE IF config.viewMode = "SCHEMA" THEN config.schemaNodes
                     ELSE <<>>
    /\ lastOp.name = "getEdges" =>
         ret.value = IF config.viewMode = "DEFAULT" THEN config.edges
                     ELSE IF config.viewMode = "SCHEMA" THEN config.schemaEdges
                     ELSE <<>>

\* C15's case: getNodes() in a view mode that is neither DEFAULT nor SCHEMA
\* returned an empty list, with nodes in the live map and in the schema map
C15_Witness ==
    /\ lastOp.name = "getNodes"
    /\ config.viewMode \notin {"DEFAULT", "SCHEMA"}
    /\ Len(config.nodes) > 1
    /\ config.schemaNodes # <<>>
    /\ ret.value = <<>>

\* The edges of the view with the uid as source or destination, in view order
EdgesAt(uid) ==
    SelectSeq(getEdges(config), LAMBDA e : e.sourceUid = uid \/ e.destinationUid = uid)

\* C16: getEdgesOfNode(node) returns the edges of the current view whose
\* source or destination uid is the node's, and getNeighborsOfNode(node) one
\* entry per such edge in the same order: what the live node map holds at
\* the uid of the other end, which is the node's own uid for a self-loop and
\* an undefined entry, kept in the list, for a uid the live map does not hold.
C16_EdgesAndNeighboursOfNode ==
    /\ (lastOp.name = "getEdgesOfNode" /\ lastOp.args[1] # Null) =>
          ret.value = EdgesAt(lastOp.args[1].uid)
    /\ (lastOp.name = "getNeighborsOfNode" /\ lastOp.args[1] # Null) =>
          LET uid == lastOp.args[1].uid
              at == EdgesAt(uid)
          IN /\ Len(ret.value) = Len(at)
             /\ \A i \in DOMAIN at :
                  LET other == IF at[i].sourceUid = uid THEN at[i].destinationUid
                               ELSE at[i].sourceUid
                  IN ret.value[i] =
                         IF other \in Keys(config.nodes)
                         THEN CHOOSE n \in Range(config.nodes) : n.uid = other
                         ELSE Undefined

\* C16's case: the neighbours of a live node with a self-loop and an edge to
\* a node the live map does not hold: the node itself and an undefined entry
C16_Witness ==
    /\ lastOp.name = "getNeighborsOfNode"
    /\ lastOp.args[1] \in Range(config.nodes)
    /\ Len(ret.value) = 2
    /\ lastOp.args[1] \in Range(ret.value)
    /\ Undefined \in Range(ret.value)

\* The labels of the edge tables whose node table at the given end is a node
\* table of the schema that has one of the labels
LabelsTowards(schema, labels, end) ==
    LET nodeTables == Range(schema.rawSchema.nodeTables)
        edgeTables == Range(schema.rawSchema.edgeTables)
        shares(nodeTable) ==
            \E l \in Range(labels) : l \in Range(nodeTable.labelNames)
        tableAt(edgeTable) ==
            IF end = "source" THEN edgeTable.sourceNodeTable.nodeTableName
            ELSE edgeTable.destinationNodeTable.nodeTableName
    IN {L \in UNION {Range(t.labelNames) : t \in edgeTables} :
           \E t \in edgeTables :
               /\ L \in Range(t.labelNames)
               /\ \E nodeTable \in nodeTables :
                     nodeTable.name = tableAt(t) /\ shares(nodeTable)}

\* C17: for a node and a schema, getEdgeTypesOfNode has an entry (L, OUTGOING)
\* exactly for the labels L of the edge tables whose source node table is a
\* node table sharing a label with the node, and an entry (L, INCOMING)
\* exactly for those of the edge tables whose destination node table is one.
C17_EdgeTypesFollowTheSchema ==
    (/\ lastOp.name = "getEdgeTypesOfNode"
     /\ lastOp.args[1] # Null
     /\ lastOp.args[1].kind = "Node"
     /\ config.schema # Null)
    => /\ ret.kind = "value"
       /\ Range(ret.value) =
            {[label |-> L, direction |-> "OUTGOING"] :
                 L \in LabelsTowards(config.schema, lastOp.args[1].labels, "source")}
            \cup {[label |-> L, direction |-> "INCOMING"] :
                 L \in LabelsTowards(config.schema, lastOp.args[1].labels, "destination")}

\* C17's case: with Person -WORKS_AT-> Company a Person node gets WORKS_AT
\* outgoing and nothing else
C17_Witness ==
    /\ lastOp.name = "getEdgeTypesOfNode"
    /\ config.schema = PersonWorksAtCompany
    /\ lastOp.args[1] # Null
    /\ lastOp.args[1].labels = <<"Person">>
    /\ ret.kind = "value"
    /\ ret.value = <<[label |-> "WORKS_AT", direction |-> "OUTGOING"]>>

\* C18 as stated: for every node and schema, the list getEdgeTypesOfNode
\* returns never holds two entries with the same label and the same
\* direction.
C18_EdgeTypesHoldNoPairTwice ==
    (lastOp.name = "getEdgeTypesOfNode" /\ ret.kind = "value") =>
        \A i, j \in DOMAIN ret.value :
            ret.value[i] = ret.value[j] => i = j

\* C19: getColorForNode(node) answers as getColorForNodeByNeighborhood(node)
\* does when config.colorScheme is NEIGHBORHOOD, as getColorForNodeByLabel(node)
\* does when it is LABEL, and raises, leaving everything as it was, when it is
\* anything else.
C19_ColorDispatchesOnScheme ==
    [][lastOp'.name = "getColorForNode" =>
        LET node == lastOp'.args[1]
            byNeighborhood == colorByNeighborhood(reservedColorsByNeighborhood, node)
        IN /\ config' = config
           /\ eventListeners' = eventListeners
           /\ trace' = <<>>
           /\ IF config.colorScheme = "NEIGHBORHOOD"
              THEN /\ ret' = byNeighborhood.ret
                   /\ reservedColorsByNeighborhood' = byNeighborhood.reserved
              ELSE IF config.colorScheme = "LABEL"
              THEN /\ ret' = Returns(colorByLabel(config, node))
                   /\ reservedColorsByNeighborhood' = reservedColorsByNeighborhood
              ELSE /\ ret'.kind = "throw"
                   /\ reservedColorsByNeighborhood' = reservedColorsByNeighborhood
    ]_vars

\* C19's case: a colour was asked for a node after setColorScheme had stored
\* a value that is no scheme, with colours reserved: the call raised
C19_Witness ==
    /\ lastOp.name = "getColorForNode"
    /\ lastOp.args[1] # Null
    /\ config.colorScheme \notin {"NEIGHBORHOOD", "LABEL"}
    /\ reservedColorsByNeighborhood # <<>>
    /\ ret.kind = "throw"

\* The colour of the k-th neighborhood, k counted from 0
PaletteSlot(k) ==
    IF k < Len(colorPalette) THEN colorPalette[k + 1] ELSE colorPalette[1]

\* C20: a colour query by neighborhood answers with colorPalette[k] for the
\* k-th distinct neighborhood id ever queried (k from 0) when k is below the
\* palette length and with colorPalette[0] otherwise, at the first query of
\* the id and at every later one; the ids within the palette length hold
\* distinct slots, in the order of their first query.
C20_NeighborhoodColorsFirstSeenWins ==
    /\ reservedColorsByNeighborhood = queried
    /\ \A i, j \in DOMAIN queried : queried[i] = queried[j] => i = j
    /\ (/\ ret.kind = "value"
        /\ \/ lastOp.name = "getColorForNodeByNeighborhood"
           \/ lastOp.name = "getColorForNode" /\ config.colorScheme = "NEIGHBORHOOD")
       => /\ lastOp.args[1].neighborhood \in Range(queried)
          /\ ret.value = PaletteSlot(indexOf(queried, lastOp.args[1].neighborhood))

\* C20's case: more neighborhoods were queried than the palette has colours,
\* and the second of them, asked again after all of that, still has the
\* second colour
C20_Witness ==
    /\ lastOp.name = "getColorForNodeByNeighborhood"
    /\ Len(queried) > Len(colorPalette)
    /\ ret.kind = "value"
    /\ queried[2] = lastOp.args[1].neighborhood
    /\ ret.value = colorPalette[2]

\* The first labels the store has met: those of the live nodes and of the
\* nodes of the view
FirstLabels == {n.labels[1] : n \in Range(config.nodes) \cup VisibleNodes}

\* C21 as stated: in every view mode and after any appendGraphData calls,
\* two nodes that getNodes() exposes get the same colour from
\* getColorForNodeByLabel when they have the same first label and, within
\* the capacity of the palette, different colours when they have not.
C21_VisibleNodesColouredByFirstLabel ==
    \A a, b \in VisibleNodes :
        /\ a.labels[1] = b.labels[1] =>
              colorByLabel(config, a) = colorByLabel(config, b)
        /\ (a.labels[1] # b.labels[1]
               /\ Cardinality(FirstLabels) <= Len(colorPalette)) =>
              colorByLabel(config, a) # colorByLabel(config, b)

\* The place of a label among the labels that were given a colour, 0 if none
ColourRank(label) ==
    IF \E i \in DOMAIN config.nodeColors : config.nodeColors[i].label = label
    THEN CHOOSE i \in DOMAIN config.nodeColors : config.nodeColors[i].label = label
    ELSE 0

\* C21, amended: in every view mode and after any appendGraphData calls, two
\* nodes of the live graph get the same colour from getColorForNodeByLabel
\* when they have the same first label, and different colours when their
\* first labels differ and were both given a colour while the palette had
\* unused ones; a node whose first label no live node has, as a node of the
\* schema view can be, gets the default colour whatever its label.
C21_LiveNodesColouredByFirstLabel ==
    /\ \A a, b \in Range(config.nodes) :
        /\ a.labels[1] = b.labels[1] =>
              colorByLabel(config, a) = colorByLabel(config, b)
        /\ (/\ a.labels[1] # b.labels[1]
            /\ ColourRank(a.labels[1]) <= Len(colorPalette)
            /\ ColourRank(b.labels[1]) <= Len(colorPalette)) =>
              colorByLabel(config, a) # colorByLabel(config, b)
        /\ colorByLabel(config, a) # defaultColor
    /\ \A n \in VisibleNodes :
          n.labels[1] \notin {a.labels[1] : a \in Range(config.nodes)} =>
              colorByLabel(config, n) = defaultColor
    /\ lastOp.name = "getColorForNodeByLabel" =>
          ret.value = colorByLabel(config, lastOp.args[1])

\* C21's case: the colour of a live node with two labels was asked for,
\* another live node has the same first label and a third has another one
C21_Witness ==
    /\ lastOp.name = "getColorForNodeByLabel"
    /\ lastOp.args[1] \in Range(config.nodes)
    /\ Len(lastOp.args[1].labels) = 2
    /\ \E a, b \in Range(config.nodes) :
          /\ a # lastOp.args[1]
          /\ a.labels[1] = lastOp.args[1].labels[1]
          /\ b.labels[1] # a.labels[1]
          /\ ret.value = colorByLabel(config, a)
          /\ ret.value # colorByLabel(config, b)

Reads ==
    {"getNodes", "getEdges", "getEdgesOfNode", "getNeighborsOfNode",
     "getEdgeTypesOfNode", "getColorForNode", "getEdgeDesign"}

\* C22 as stated: getNodes, getEdges, getEdgesOfNode, getNeighborsOfNode,
\* getEdgeTypesOfNode, getColorForNode and getEdgeDesign change no field of
\* the store (the listener lists and reservedColorsByNeighborhood included)
\* and none of the configuration.
C22_ReadsChangeNothing ==
    [][lastOp'.name \in Reads =>
        /\ config' = config
        /\ eventListeners' = eventListeners
        /\ reservedColorsByNeighborhood' = reservedColorsByNeighborhood
    ]_vars

\* C22, amended: these reads change no field of the configuration and no
\* listener list and invoke no listener, and they leave
\* reservedColorsByNeighborhood as it was, but for getColorForNode under the
\* NEIGHBORHOOD scheme asked for a node whose neighborhood is not in the list,
\* which puts that neighborhood at the end of the list.
C22_ReadsChangeNothingButReservations ==
    [][lastOp'.name \in Reads =>
        /\ config' = config
        /\ eventListeners' = eventListeners
        /\ trace' = <<>>
        /\ \/ reservedColorsByNeighborhood' = reservedColorsByNeighborhood
           \/ /\ lastOp'.name = "getColorForNode"
              /\ config.colorScheme = "NEIGHBORHOOD"
              /\ lastOp'.args[1].neighborhood \notin Range(reservedColorsByNeighborhood)
              /\ reservedColorsByNeighborhood' =
                     Append(reservedColorsByNeighborhood, lastOp'.args[1].neighborhood)
    ]_vars

\* C22's case: getColorForNode under the NEIGHBORHOOD scheme answered with
\* the second colour for the neighborhood that is second in the list, while
\* a listener is registered that was not invoked
C22_Witness ==
    /\ lastOp.name = "getColorForNode"
    /\ config.colorScheme = "NEIGHBORHOOD"
    /\ ret.kind = "value"
    /\ Len(reservedColorsByNeighborhood) = 2
    /\ reservedColorsByNeighborhood[2] = lastOp.args[1].neighborhood
    /\ ret.value = colorPalette[2]
    /\ eventListeners["COLOR_SCHEME"] # <<>>
    /\ trace = <<>>

\* C23: after construction and after any appendGraphData calls, nodeCount is
\* the number of keys of the live node map and edgeCount that of the live
\* edge map, and schemaNodeCount and schemaEdgeCount are the sizes of the
\* schema maps.
C23_CountsAreTheMapSizes ==
    /\ config.nodeCount = Cardinality({n.uid : n \in Range(config.nodes)})
    /\ config.edgeCount = Cardinality({e.uid : e \in Range(config.edges)})
    /\ config.nodeCount = Len(config.nodes)
    /\ config.edgeCount = Len(config.edges)
    /\ config.schemaNodeCount = Cardinality({n.uid : n \in Range(config.schemaNodes)})
    /\ config.schemaEdgeCount = Cardinality({e.uid : e \in Range(config.schemaEdges)})

\* C23's case: a batch of two new node records of which only one was stored,
\* with an edge in the live edge map
C23_Witness ==
    /\ lastOp.name = "appendGraphData"
    /\ ret.kind = "value"
    /\ Len(ret.newNodes) = 2
    /\ config.nodeCount = 2
    /\ config.edgeCount = 1

\* C24: an entry of nodeColors, once there, is the same after every
\* operation; the labels that got their entry while the palette had unused
\* colours have pairwise distinct colours, a label that got it later has the
\* colour at palette index 0, and the append that brought it did not fail.
C24_LabelColoursAssignedOnce ==
    [][/\ IsPrefix(config.nodeColors, config'.nodeColors)
       /\ \A i, j \in DOMAIN config'.nodeColors :
            /\ config'.nodeColors[i].label = config'.nodeColors[j].label => i = j
            /\ (i # j /\ i <= Len(colorPalette) /\ j <= Len(colorPalette)) =>
                  config'.nodeColors[i].color # config'.nodeColors[j].color
            /\ i > Len(colorPalette) => config'.nodeColors[i].color = colorPalette[1]
       /\ {config'.nodeColors[i].label : i \in DOMAIN config'.nodeColors} =
            {n.labels[1] : n \in Range(config'.nodes)}
       /\ ret'.kind # "throw"
    ]_vars

\* C24's case: a batch brought a node of a fourth first label, which has the
\* first colour of the palette of three, as the first label still has
C24_Witness ==
    /\ lastOp.name = "appendGraphData"
    /\ ret.kind = "value"
    /\ Len(config.nodeColors) = Len(colorPalette) + 1
    /\ config.nodes[Len(config.nodes)].labels[1] = config.nodeColors[Len(config.nodeColors)].label
    /\ config.nodeColors[Len(config.nodeColors)].color = colorPalette[1]
    /\ config.nodeColors[1].color = colorPalette[1]

\* The valid records of a batch, and the last of them with an identifier
ValidRecords(data) == SelectSeq(data, LAMBDA d : Len(d.labels) > 0)
LastWith(data, id) ==
    data[CHOOSE i \in DOMAIN data :
            /\ data[i].identifier = id
            /\ \A j \in DOMAIN data : data[j].identifier = id => j <= i]

-----------------------------------------------------------------------------
(* Schema: the lookups by table name.  The Schema object is config.schema;  *)
(* its rawSchema is Undefined when the schema was built from no data.       *)

\* JavaScript values: strings, finite numbers, NaN, Infinity and arrays, next
\* to Null and Undefined
Str(chars) == [kind |-> "string", chars |-> chars]
Num(number) == [kind |-> "number", number |-> number]
NaN == [kind |-> "NaN"]
Infinity == [kind |-> "Infinity"]
Arr(items) == [kind |-> "array", items |-> items]

\* !value, for the values above
Falsy(value) ==
    \/ value.kind = "undefined"
    \/ value.kind = "null"
    \/ value.kind = "string" /\ value.chars = ""
    \/ value.kind = "number" /\ value.number = 0
    \/ value.kind = "NaN"

\* The integer a property key is the canonical array index of, -1 for a key
\* that is none: "2" and "10" are, "Person" and "Company" are not.
ArrayIndex(key) ==
    IF key = "2" THEN 2 ELSE IF key = "10" THEN 10 ELSE -1

\* Object.keys(names) of an object whose keys were created in the order of
\* the list: the array indices in ascending numeric order, then the other
\* keys in the order of their creation.
RECURSIVE Ascending(_)
Ascending(keys) ==
    IF keys = {} THEN <<>>
    ELSE LET least == CHOOSE k \in keys : \A j \in keys : ArrayIndex(k) <= ArrayIndex(j)
         IN <<least>> \o Ascending(keys \ {least})

ObjectKeys(created) ==
    Ascending({k \in Range(created) : ArrayIndex(k) >= 0})
    \o SelectSeq(created, LAMBDA k : ArrayIndex(k) < 0)

\* The loop of getNamesOfTables: names[table.name] = '' for every table whose
\* name is truthy and a string
RECURSIVE namesAfter(_, _)
namesAfter(names, tables) ==
    IF tables = <<>> THEN names
    ELSE LET name == Head(tables).name
         IN namesAfter(IF Falsy(name) \/ name.kind # "string" \/ name.chars \in Range(names)
                       THEN names
                       ELSE Append(names, name.chars),
                       Tail(tables))

namesOfTables(schema, tables) ==
    IF schema.rawSchema = Undefined
    THEN <<>>
    ELSE ObjectKeys(namesAfter(<<>>, tables))

\* tables.filter(table => table.name === name)[0]
FirstNamed(tables, name) ==
    LET found == SelectSeq(tables, LAMBDA t : t.name = name)
    IN IF Len(found) > 0 THEN found[1] ELSE Undefined

edgeFromName(schema, name) == FirstNamed(schema.rawSchema.edgeTables, name)
nodeFromName(schema, name) == FirstNamed(schema.rawSchema.nodeTables, name)

\* The loop of getNodesOfEdges from node table i on
RECURSIVE nodesOfEdgesFrom(_, _, _, _)
nodesOfEdgesFrom(nodeTables, edgeTable, i, nodes) ==
    IF i > Len(nodeTables) THEN nodes
    ELSE LET nodeTable == nodeTables[i]
             withFrom == IF edgeTable.sourceNodeTable.nodeTableName = nodeTable.name
                         THEN [nodes EXCEPT !.from = nodeTable]
                         ELSE nodes
             withTo == IF edgeTable.destinationNodeTable.nodeTableName = nodeTable.name
                       THEN [withFrom EXCEPT !.to = nodeTable]
                       ELSE withFrom
         IN IF withTo.from # Undefined /\ withTo.to # Undefined
            THEN withTo
            ELSE nodesOfEdgesFrom(nodeTables, edgeTable, i + 1, withTo)

nodesOfEdges(schema, edgeTable) ==
    nodesOfEdgesFrom(schema.rawSchema.nodeTables, edgeTable, 1,
                     [from |-> Undefined, to |-> Undefined])

\* Schema.getEdgesOfNode: the edge tables from or to the node table
schemaEdgesOfNode(schema, nodeTable) ==
    SelectSeq(schema.rawSchema.edgeTables,
              LAMBDA edgeTable :
                  \/ edgeTable.sourceNodeTable.nodeTableName = nodeTable.name
                  \/ edgeTable.destinationNodeTable.nodeTableName = nodeTable.name)

\* A connection that takes every connected node for the source
connection_AlwaysSource(schema, nodeName, edgeName) ==
    LET node == nodeFromName(schema, nodeName)
        edge == edgeFromName(schema, edgeName)
    IN IF node = Undefined \/ edge = Undefined
       THEN [isConnected |-> FALSE, isSource |-> FALSE]
       ELSE [isConnected |-> TRUE, isSource |-> TRUE]

connection(schema, nodeName, edgeName) ==
    LET node == nodeFromName(schema, nodeName)
        edge == edgeFromName(schema, edgeName)
    IN IF node = Undefined
       THEN [isConnected |-> FALSE, isSource |-> FALSE]
       ELSE IF edge = Undefined
       THEN [isConnected |-> FALSE, isSource |-> FALSE]
       ELSE [isConnected |-> TRUE,
             isSource |-> edge.sourceNodeTable.nodeTableName = node.name]

\* A call that changes nothing and returns or throws.  A lookup of the schema
\* reads this.rawSchema.nodeTables or .edgeTables, a TypeError when rawSchema
\* is undefined.
PureCall(name, args, result) ==
    /\ Called(name, args)
    /\ trace' = <<>>
    /\ ret' = result
    /\ UNCHANGED <<config, eventListeners, reservedColorsByNeighborhood>>

OrUndefined(value) == IF value = Undefined THEN ReturnsUndefined ELSE Returns(value)

getNamesOfTables(tables) ==
    PureCall("getNamesOfTables", <<tables>>, Returns(namesOfTables(config.schema, tables)))

getNodesOfEdges(edgeTable) ==
    PureCall("getNodesOfEdges", <<edgeTable>>,
               IF config.schema.rawSchema = Undefined THEN Throws
               ELSE Returns(nodesOfEdges(config.schema, edgeTable)))

getEdgeFromName(name) ==
    PureCall("getEdgeFromName", <<name>>,
               IF config.schema.rawSchema = Undefined THEN Throws
               ELSE OrUndefined(edgeFromName(config.schema, name)))

getNodeFromName(name) ==
    PureCall("getNodeFromName", <<name>>,
               IF config.schema.rawSchema = Undefined THEN Throws
               ELSE OrUndefined(nodeFromName(config.schema, name)))

SchemaGetEdgesOfNode(nodeTable) ==
    PureCall("Schema.getEdgesOfNode", <<nodeTable>>,
             IF config.schema.rawSchema = Undefined THEN Throws
             ELSE Returns(schemaEdgesOfNode(config.schema, nodeTable)))

nodeIsConnectedToEdge(nodeName, edgeName) ==
    PureCall("nodeIsConnectedToEdge", <<nodeName, edgeName>>,
               IF config.schema.rawSchema = Undefined THEN Throws
               ELSE Returns(connection(config.schema, nodeName, edgeName)))

\* The bound of the lists of tables handed to getNamesOfTables
MaxNames == 3

\* Tables as getNamesOfTables reads them: by their name, which is a string
\* (two of them array indices), a number or missing
TableNames ==
    {Str("Person"), Str("Company"), Str("2"), Str("10"), Num(7), Undefined}
NamedTables == SeqsUpTo({[name |-> v] : v \in TableNames}, MaxNames)

\* A second node table of the name Person, and edge tables of which two share
\* the name WORKS_AT and one has a destination that is no node table
OtherPersonTable == [name |-> "Person", labelNames |-> <<"Employee">>]
WorksAt == EdgeTable("WORKS_AT", <<"WORKS_AT">>, "Person", "Company")
WorkedAtBy == EdgeTable("WORKS_AT", <<"EMPLOYS">>, "Company", "Person")
Knows == EdgeTable("KNOWS", <<"KNOWS">>, "Person", "Person")
LivesIn == EdgeTable("LIVES_IN", <<"LIVES_IN">>, "Person", "City")
LookupEdgeTables == {WorksAt, WorkedAtBy, Knows, LivesIn}

LookupSchemas ==
    { [rawSchema |-> [nodeTables |-> nodeTables, edgeTables |-> edgeTables]] :
        nodeTables \in { <<>>,
                         <<PersonTable, CompanyTable>>,
                         <<PersonTable, OtherPersonTable>>,
                         <<PersonTable, OtherPersonTable, CompanyTable>>,
                         <<CompanyTable, OtherPersonTable, PersonTable>> },
        edgeTables \in { <<>>,
                         <<WorksAt>>,
                         <<WorksAt, WorkedAtBy>>,
                         <<Knows, LivesIn>> } }
    \cup {PersonWorksAtCompany, [rawSchema |-> Undefined]}

LookupNodeTables == {PersonTable, OtherPersonTable, CompanyTable}
NodeNameArgs == {"Person", "Company", "City"}
EdgeNameArgs == {"WORKS_AT", "KNOWS", "FOLLOWS"}

\* new Schema(rawSchema) for every raw schema above, in a store of no data
InitLookups ==
    /\ \E schema \in LookupSchemas :
          LET parsed == IF schema.rawSchema = Undefined THEN Null ELSE schema
              previewNodes == parseSchemaNodes(parsed)
              previewEdges == parseSchemaEdges(parsed)
          IN
          config = [EmptyGraphConfig EXCEPT
                       !.schema = schema,
                       !.schemaNodes = previewNodes, !.schemaEdges = previewEdges,
                       !.schemaNodeCount = Len(previewNodes),
                       !.schemaEdgeCount = Len(previewEdges)]
    /\ eventListeners = [k \in EventTypes |-> <<>>]
    /\ reservedColorsByNeighborhood = <<>>
    /\ lastOp = [name |-> "constructor", args |-> <<>>]
    /\ trace = <<>>
    /\ ret = ReturnsUndefined
    /\ calls = 0
    /\ queried = <<>>
    /\ NoLoaders

\* The lookups of the schema, in runs of any length
NextLookups ==
    \/ \E edgeTable \in LookupEdgeTables : Free(getNodesOfEdges(edgeTable))
    \/ \E nodeTable \in LookupNodeTables : Free(SchemaGetEdgesOfNode(nodeTable))
    \/ \E name \in EdgeNameArgs : Free(getEdgeFromName(name))
    \/ \E name \in NodeNameArgs : Free(getNodeFromName(name))
    \/ \E nodeName \in NodeNameArgs, edgeName \in EdgeNameArgs :
          Free(nodeIsConnectedToEdge(nodeName, edgeName))

SpecLookups == InitLookups /\ [][NextLookups]_vars

\* The names of lists of tables, asked of a schema with and without raw schema
InitNames ==
    /\ InitLookups
    /\ config.schema \in {PersonWorksAtCompany, [rawSchema |-> Undefined]}

NextNames ==
    \E tables \in NamedTables : Free(getNamesOfTables(tables))

SpecNames == InitNames /\ [][NextNames]_vars

\* Whether the raw schema has a node / an edge table of a name
HasNodeTable(name) ==
    \E i \in DOMAIN config.schema.rawSchema.nodeTables :
        config.schema.rawSchema.nodeTables[i].name = name
HasEdgeTable(name) ==
    \E i \in DOMAIN config.schema.rawSchema.edgeTables :
        config.schema.rawSchema.edgeTables[i].name = name
FirstEdgeTable(name) ==
    LET edgeTables == config.schema.rawSchema.edgeTables
    IN edgeTables[CHOOSE i \in DOMAIN edgeTables :
                     /\ edgeTables[i].name = name
                     /\ \A j \in DOMAIN edgeTables : edgeTables[j].name = name => i <= j]

ValidNames(tables) ==
    LET valid == SelectSeq(tables, LAMBDA t : t.name.kind = "string" /\ t.name.chars # "")
    IN [i \in DOMAIN valid |-> valid[i].name.chars]
FirstAt(names, name) ==
    CHOOSE i \in DOMAIN names :
        names[i] = name /\ \A j \in DOMAIN names : names[j] = name => i <= j

\* C27: getNamesOfTables returns the empty list when the raw schema is absent
\* and otherwise every valid name of the list once, in the order in which the
\* names first occur in the list, whatever the names look like; a table whose
\* name is missing or no string adds nothing.
C27_NamesInOrderOfFirstOccurrence ==
    [][lastOp'.name = "getNamesOfTables" =>
        LET valid == ValidNames(lastOp'.args[1])
            names == ret'.value
        IN /\ ret'.kind = "value"
           /\ config.schema.rawSchema = Undefined => names = <<>>
           /\ config.schema.rawSchema # Undefined =>
                /\ Range(names) = Range(valid)
                /\ \A i, j \in DOMAIN names :
                      i < j => FirstAt(valid, names[i]) < FirstAt(valid, names[j])
    ]_vars

\* C28: no lookup throws; getNodeFromName and getEdgeFromName return the first
\* table of the name in the list, or undefined when there is none, and
\* getNodesOfEdges returns as from and to what getNodeFromName returns for
\* the source and the destination node table name of the edge table.
C28_LookupsResolveToTheFirst ==
    [][/\ lastOp'.name \in {"getNodeFromName", "getEdgeFromName", "getNodesOfEdges"} =>
            ret'.kind # "throw"
       /\ lastOp'.name = "getNodeFromName" =>
            ret' = OrUndefined(nodeFromName(config.schema, lastOp'.args[1]))
       /\ lastOp'.name = "getEdgeFromName" =>
            ret' = OrUndefined(edgeFromName(config.schema, lastOp'.args[1]))
       /\ lastOp'.name = "getNodesOfEdges" =>
            LET edgeTable == lastOp'.args[1]
            IN /\ ret'.value.from =
                    nodeFromName(config.schema, edgeTable.sourceNodeTable.nodeTableName)
               /\ ret'.value.to =
                    nodeFromName(config.schema, edgeTable.destinationNodeTable.nodeTableName)
    ]_vars

-----------------------------------------------------------------------------
(* The constructors of GraphObject and of Edge (to / from)                   *)

\* new GraphObject({labels, properties}): a TypeError when labels is no
\* array; an object of no label is not instantiated.
GraphObject(params) ==
    IF params.labels.kind # "array"
    THEN Throws
    ELSE Returns([class |-> "GraphObject", labels |-> params.labels.items,
                  instantiated |-> Len(params.labels.items) > 0])

\* Number(value): a string is parsed, the empty one being 0; null is 0 and
\* undefined is NaN.
StringToNumber(chars) ==
    IF chars = "" THEN Num(0)
    ELSE IF chars = "2" THEN Num(2)
    ELSE NaN

ToNumber(value) ==
    IF value.kind = "string" THEN StringToNumber(value.chars)
    ELSE IF value.kind = "null" THEN Num(0)
    ELSE IF value.kind = "undefined" THEN NaN
    ELSE value

\* Edge.isNumber: Number.isFinite(Number(value))
isNumber(value) == ToNumber(value).kind = "number"

\* new Edge({to, from, label}): super({label, title, properties}), then the
\* endpoints.  target and source are declared fields, undefined until set.
EdgeConstructor(params) ==
    IF ~isNumber(params.to) \/ ~isNumber(params.from)
    THEN [class |-> "Edge", label |-> params.label,
          target |-> Undefined, source |-> Undefined, instantiated |-> FALSE]
    ELSE [class |-> "Edge", label |-> params.label,
          target |-> params.to, source |-> params.from, instantiated |-> TRUE]

NewGraphObject(params) ==
    PureCall("new GraphObject", <<params>>, GraphObject(params))

NewEdge(params) ==
    PureCall("new Edge", <<params>>, Returns(EdgeConstructor(params)))

\* The largest number among the endpoints
MaxEndpoint == 2

\* What a caller can pass as labels, as an endpoint and as the label of an edge
LabelsValues == {Undefined, Null, Str("foo"), Arr(<<>>), Arr(<<"foo", "bar">>)}
EndpointValues ==
    {Num(n) : n \in 0..MaxEndpoint}
    \cup {NaN, Infinity, Str("2"), Str("abc"), Str(""), Null, Undefined}
EdgeLabelValues == {Str("KNOWS"), Undefined}

\* Constructions of graph objects and edges, in runs of any length
NextObjects ==
    \/ \E labels \in LabelsValues : Free(NewGraphObject([labels |-> labels]))
    \/ \E to \in EndpointValues, from \in EndpointValues, label \in EdgeLabelValues :
          Free(NewEdge([to |-> to, from |-> from, label |-> label]))

SpecObjects == Init /\ [][NextObjects]_vars

\* A value that is there: neither undefined nor null
Present(value) == value.kind \notin {"undefined", "null"}

\* C29: new Edge never throws; the edge is instantiated exactly when to and
\* from are both present and coerce to a finite number, and then target is
\* to and source is from, both present; otherwise target and source are unset.
C29_EdgeInstantiatedIffEndpointsNumeric ==
    [][lastOp'.name = "new Edge" =>
        LET params == lastOp'.args[1]
            edge == ret'.value
        IN /\ ret'.kind = "value"
           /\ edge.instantiated <=>
                 /\ Present(params.to) /\ Present(params.from)
                 /\ isNumber(params.to) /\ isNumber(params.from)
           /\ edge.instantiated =>
                 /\ edge.target = params.to /\ edge.source = params.from
                 /\ Present(edge.target) /\ Present(edge.source)
           /\ ~edge.instantiated =>
                 edge.target = Undefined /\ edge.source = Undefined
    ]_vars

\* C30: the construction of a graph object whose labels are missing or no
\* array of at least one label, and of an edge whose label is missing or
\* whose endpoints are no numbers, does not throw and returns an instance
\* that is not instantiated.
C30_InvalidConstructionIsFlagged ==
    [][/\ (lastOp'.name = "new GraphObject" /\
              (lastOp'.args[1].labels.kind # "array" \/ lastOp'.args[1].labels.items = <<>>)) =>
            ret'.kind = "value" /\ ~ret'.value.instantiated
       /\ (lastOp'.name = "new Edge" /\
              (\/ ~Present(lastOp'.args[1].label)
               \/ ~isNumber(lastOp'.args[1].to)
               \/ ~isNumber(lastOp'.args[1].from))) =>
            ret'.kind = "value" /\ ~ret'.value.instantiated
    ]_vars

-----------------------------------------------------------------------------
(* The identifiers of a node                                                 *)

\* What stands in identifiers for a key property the node has not
Placeholder == [kind |-> "placeholder"]

\* Identifiers that leave out the key properties the node has not
RECURSIVE identifiers_SkipsAbsent(_, _)
identifiers_SkipsAbsent(properties, key_property_names) ==
    IF key_property_names = <<>> THEN <<>>
    ELSE LET rest == identifiers_SkipsAbsent(properties, Tail(key_property_names))
         IN IF Head(key_property_names) \in DOMAIN properties
            THEN <<properties[Head(key_property_names)]>> \o rest
            ELSE rest

\* GraphObject.identifiers: the values of the key properties, in the order of
\* key_property_names
identifiers(properties, key_property_names) ==
    [i \in DOMAIN key_property_names |->
        IF key_property_names[i] \in DOMAIN properties
        THEN properties[key_property_names[i]]
        ELSE Placeholder]

\* new Node({identifier, labels, properties, key_property_names})
NewNode(params) ==
    PureCall("new Node", <<params>>,
             Returns([kind |-> "Node", uid |-> params.identifier, labels |-> params.labels,
                      identifiers |-> identifiers(params.properties, params.key_property_names),
                      instantiated |-> Len(params.labels) > 0]))

\* The bound of the lists of key property names
MaxKeys == 2

\* The properties a node can have, any of them missing, and the lists of
\* key property names, a name more than once included
AllProperties == [name |-> Str("Node Name"), type |-> Str("example"), age |-> Num(2)]
PropertySets == {[k \in S |-> AllProperties[k]] : S \in SUBSET DOMAIN AllProperties}
KeyPropertyNames == SeqsUpTo(DOMAIN AllProperties, MaxKeys)

NextIdentifiers ==
    \E properties \in PropertySets, key_property_names \in KeyPropertyNames :
        Free(NewNode([identifier |-> "1", labels |-> <<"Test Node">>,
                      properties |-> properties,
                      key_property_names |-> key_property_names]))

SpecIdentifiers == Init /\ [][NextIdentifiers]_vars

\* C31: the identifiers of a node built from properties P and key property
\* names K are as many as K, the i-th being P[K[i]] when P has that property
\* and the placeholder when it has not.
C31_IdentifiersFollowKeyPropertyNames ==
    [][lastOp'.name = "new Node" =>
        LET P == lastOp'.args[1].properties
            K == lastOp'.args[1].key_property_names
            ids == ret'.value.identifiers
        IN /\ Len(ids) = Len(K)
           /\ \A i \in 1..Len(K) :
                 /\ K[i] \in DOMAIN P => ids[i] = P[K[i]]
                 /\ K[i] \notin DOMAIN P => ids[i] = Placeholder
    ]_vars

\* C31's case: K = ['name', 'type'] for a node that has a name and no type
C31_Witness ==
    /\ lastOp.name = "new Node"
    /\ lastOp.args[1].key_property_names = <<"name", "type">>
    /\ DOMAIN lastOp.args[1].properties = {"name", "age"}
    /\ ret.value.identifiers = <<Str("Node Name"), Placeholder>>

-----------------------------------------------------------------------------
(* Listeners that throw                                                      *)

\* The view mode with focus and selection, and listeners of which some throw:
\* runs of any length
NextFailures ==
    \/ Free(Register(ViewModeKinds, {"cbA"} \cup ThrowingCallbacks))
    \/ \E m \in ViewModes : Free(setViewMode(m))
    \/ \E o \in VisibleObjects \cup {Null} : Free(setFocusedObject(o))
    \/ \E o \in VisibleObjects \cup {Null} : Free(setSelectedObject(o))

SpecFailures == Init /\ [][NextFailures]_vars

\* The place of the first listener of a kind that throws, 0 when none does,
\* and the listeners that run in a dispatch to the kind
FirstThrowing(kind) ==
    LET throwing == {i \in DOMAIN eventListeners[kind] :
                        eventListeners[kind][i] \in ThrowingCallbacks}
    IN IF throwing = {} THEN 0 ELSE CHOOSE i \in throwing : \A j \in throwing : i <= j
Reached(kind) ==
    IF FirstThrowing(kind) = 0
    THEN eventListeners[kind]
    ELSE SubSeq(eventListeners[kind], 1, FirstThrowing(kind))
CallbacksOf(invocations, kind) ==
    LET ofKind == SelectSeq(invocations, LAMBDA v : v.kind = kind)
    IN [i \in DOMAIN ofKind |-> ofKind[i].callback]

\* C32: a dispatch runs the listeners up to the first that throws and no
\* listener after it, the error leaves the mutator, and what the mutator
\* assigned before the dispatch stays: setFocusedObject and setSelectedObject
\* have set their field; setViewMode has cleared the focus only when a
\* FOCUS_OBJECT listener throws, focus and selection when a SELECT_OBJECT
\* listener throws, and has set the view mode only when neither does.
C32_ListenerFailuresAreNotIsolated ==
    [][/\ lastOp'.name = "setFocusedObject" =>
            /\ CallbacksOf(trace', "FOCUS_OBJECT") = Reached("FOCUS_OBJECT")
            /\ (ret'.kind = "throw") <=> (FirstThrowing("FOCUS_OBJECT") > 0)
            /\ config' = [config EXCEPT !.focusedGraphObject = lastOp'.args[1]]
       /\ lastOp'.name = "setSelectedObject" =>
            /\ CallbacksOf(trace', "SELECT_OBJECT") = Reached("SELECT_OBJECT")
            /\ (ret'.kind = "throw") <=> (FirstThrowing("SELECT_OBJECT") > 0)
            /\ config' = [config EXCEPT !.selectedGraphObject = lastOp'.args[1]]
       /\ (lastOp'.name = "setViewMode" /\ lastOp'.args[1] # config.viewMode) =>
            LET focusThrows == FirstThrowing("FOCUS_OBJECT") > 0
                selectThrows == FirstThrowing("SELECT_OBJECT") > 0
                changeThrows == FirstThrowing("VIEW_MODE_CHANGE") > 0
            IN /\ (ret'.kind = "throw") <=> (focusThrows \/ selectThrows \/ changeThrows)
               /\ CallbacksOf(trace', "FOCUS_OBJECT") = Reached("FOCUS_OBJECT")
               /\ CallbacksOf(trace', "SELECT_OBJECT") =
                     IF focusThrows THEN <<>> ELSE Reached("SELECT_OBJECT")
               /\ CallbacksOf(trace', "VIEW_MODE_CHANGE") =
                     IF focusThrows \/ selectThrows THEN <<>> ELSE Reached("VIEW_MODE_CHANGE")
               /\ config' =
                     IF focusThrows
                     THEN [config EXCEPT !.focusedGraphObject = Null]
                     ELSE IF selectThrows
                     THEN [config EXCEPT !.focusedGraphObject = Null,
                                         !.selectedGraphObject = Null]
                     ELSE [config EXCEPT !.focusedGraphObject = Null,
                                         !.selectedGraphObject = Null,
                                         !.viewMode = lastOp'.args[1]]
    ]_vars

\* C32's case: setViewMode('SCHEMA') with a selection, a FOCUS_OBJECT listener
\* that throws and another registered after it: the call threw after one
\* invocation, the focus is cleared, selection and view mode are as before
C32_Witness ==
    /\ lastOp.name = "setViewMode"
    /\ lastOp.args[1] = "SCHEMA"
    /\ ret.kind = "throw"
    /\ eventListeners["FOCUS_OBJECT"] = <<"cbThrows", "cbA">>
    /\ Len(trace) = 1
    /\ config.focusedGraphObject = Null
    /\ config.selectedGraphObject # Null
    /\ config.viewMode = "DEFAULT"

\* What a call leaves alone when it changes no more than the given fields of
\* the configuration
ChangesOnly(fields) ==
    /\ \A f \in DOMAIN config \ fields : config'[f] = config[f]
    /\ DOMAIN config' = DOMAIN config
    /\ UNCHANGED <<eventListeners, reservedColorsByNeighborhood>>

\* C33: setFocusedObject changes only focusedGraphObject, setSelectedObject
\* only selectedGraphObject, setLayoutMode only layoutMode and lastLayoutMode,
\* setColorScheme only colorScheme, showLabels only showLabels, setViewMode
\* only viewMode, focus and selection; the maps, the counts, nodeColors, the
\* colour reservations and the listener lists stay as they are.
C33_MutatorsChangeOnlyTheirFields ==
    [][/\ lastOp'.name = "setFocusedObject" => ChangesOnly({"focusedGraphObject"})
       /\ lastOp'.name = "setSelectedObject" => ChangesOnly({"selectedGraphObject"})
       /\ lastOp'.name = "setLayoutMode" => ChangesOnly({"layoutMode", "lastLayoutMode"})
       /\ lastOp'.name = "setColorScheme" => ChangesOnly({"colorScheme"})
       /\ lastOp'.name = "showLabels" => ChangesOnly({"showLabels"})
       /\ lastOp'.name = "setViewMode" =>
             ChangesOnly({"viewMode", "focusedGraphObject", "selectedGraphObject"})
    ]_vars

\* C33's case: setFocusedObject on an object while another one is selected
C33_Witness ==
    /\ lastOp.name = "setFocusedObject"
    /\ config.focusedGraphObject # Null
    /\ config.selectedGraphObject # Null
    /\ config.selectedGraphObject # config.focusedGraphObject

\* The identifiers of the well-formed records of a list
WellFormedIds(records) ==
    {records[i].identifier : i \in {j \in DOMAIN records : Len(records[j].labels) > 0}}

\* C34: every GRAPH_DATA_UPDATE listener invoked by appendGraphData is handed
\* as currentGraph the live graph as it is after the merge, in every view
\* mode: every well-formed record of newNodes is among its nodes and every
\* well-formed record of newEdges among its edges.
C34_CurrentGraphIsTheMergedLiveGraph ==
    [][lastOp'.name = "appendGraphData" =>
        \A i \in DOMAIN trace' :
            LET currentGraph == trace'[i].args[1]
                updates == trace'[i].args[2]
            IN /\ currentGraph.nodes = config'.nodes
               /\ currentGraph.edges = config'.edges
               /\ WellFormedIds(updates.newNodes) \subseteq Keys(currentGraph.nodes)
               /\ WellFormedIds(updates.newEdges) \subseteq Keys(currentGraph.edges)
    ]_vars

\* What a list of reported records says was added to a map: identifiers that
\* were no keys and now are, none of them twice, as many as the count grew by
ReportsTheAdded(records, before, after, countBefore, countAfter) ==
    /\ \A i \in DOMAIN records :
          /\ ~HasKey(before, records[i].identifier)
          /\ HasKey(after, records[i].identifier)
    /\ \A i, j \in DOMAIN records :
          records[i].identifier = records[j].identifier => i = j
    /\ countAfter = countBefore + Len(records)

\* C35: the newNodes and newEdges that appendGraphData returns and hands to
\* the GRAPH_DATA_UPDATE listeners are what the call added to the live maps,
\* so that a call which reports anything changed the live graph.
C35_ReportedRecordsAreTheAdded ==
    [][(lastOp'.name = "appendGraphData" /\ ret'.kind = "value") =>
        /\ ReportsTheAdded(ret'.newNodes, config.nodes, config'.nodes,
                           config.nodeCount, config'.nodeCount)
        /\ ReportsTheAdded(ret'.newEdges, config.edges, config'.edges,
                           config.edgeCount, config'.edgeCount)
        /\ \A i \in DOMAIN trace' :
              /\ trace'[i].args[2].newNodes = ret'.newNodes
              /\ trace'[i].args[2].newEdges = ret'.newEdges
        /\ <<config'.nodes, config'.edges>> # <<config.nodes, config.edges>>
    ]_vars

\* C36: getEdgesOfNode of what is no Node is empty, and while the selected
\* object, or with nothing selected the focused one, is an Edge, getEdgeDesign
\* returns the default style for every other edge.
C36_EdgesConnectToNodesOnly ==
    [][/\ (lastOp'.name = "getEdgesOfNode" /\ lastOp'.args[1].kind # "Node") =>
            ret'.value = <<>>
       /\ lastOp'.name = "getEdgeDesign" =>
            LET governing == IF config.selectedGraphObject # Null
                             THEN config.selectedGraphObject
                             ELSE config.focusedGraphObject
            IN (governing.kind = "Edge" /\ lastOp'.args[1] # governing) =>
                  ret'.value = "default"
    ]_vars

\* C37: getEdgeTypesOfNode of a Node never fails, and returns the empty list
\* when the configuration has no schema.
C37_EdgeTypesNeverFail ==
    [][(lastOp'.name = "getEdgeTypesOfNode" /\ lastOp'.args[1].kind = "Node") =>
        /\ ret'.kind = "value"
        /\ config.schema = Null => ret'.value = <<>>
    ]_vars

\* C38: for every node table N and edge table E of the schema, the
\* isConnected of nodeIsConnectedToEdge(N.name, E.name) is true exactly when
\* E is among getEdgesOfNode(N), that is when N is the source or destination
\* table of E; and whatever the names, isSource implies isConnected.
C38_ConnectionAgreesWithEdgesOfNode ==
    [][(lastOp'.name = "nodeIsConnectedToEdge" /\ ret'.kind = "value") =>
        /\ ret'.value.isSource => ret'.value.isConnected
        /\ \A N \in Range(config.schema.rawSchema.nodeTables),
              E \in Range(config.schema.rawSchema.edgeTables) :
              lastOp'.args = <<N.name, E.name>> =>
                 (ret'.value.isConnected <=>
                     E \in Range(schemaEdgesOfNode(config.schema, N)))
    ]_vars

-----------------------------------------------------------------------------
(* LoaderManager (part_002): showLoader puts a loader element over a       *)
(* container, or over the whole page when no container is given, and       *)
(* removeLoader takes it away again.  A call is atomic: showLoader is      *)
(* async but awaits nothing, and its timer callback changes nothing.       *)

\* window.getComputedStyle(container).position: the inline style where it
\* is set, the stylesheet's value otherwise
computedPosition(container) ==
    IF container.style.position # "" THEN container.style.position
    ELSE container.sheet.position

\* container.offsetHeight: the content's height, at least the inline
\* min-height
offsetHeight(container) ==
    IF container.style.minHeight = "200px" /\ container.contentHeight < 200 THEN 200
    ELSE container.contentHeight

\* `auth-loader-${container.dataset.id || 'default'}`, or 'auth-loader'
loaderIdOf(container) ==
    IF container = Null THEN "auth-loader"
    ELSE IF container.dataset.id # "" THEN "auth-loader-" \o container.dataset.id
    ELSE "auth-loader-default"

\* document.getElementById over the loader elements, in document order: the
\* children of the container, then those appended to the body
ElementsOf(page) == page.container.children \o page.body
getElementById(page, id) ==
    IF \E i \in DOMAIN ElementsOf(page) : ElementsOf(page)[i].id = id
    THEN LET i == CHOOSE i \in DOMAIN ElementsOf(page) :
                      /\ ElementsOf(page)[i].id = id
                      /\ \A j \in 1..(i - 1) : ElementsOf(page)[j].id # id
         IN ElementsOf(page)[i]
    ELSE Null

Without(elements, element) ==
    IF \E i \in DOMAIN elements : elements[i] = element
    THEN LET i == CHOOSE i \in DOMAIN elements :
                      elements[i] = element /\ \A j \in 1..(i - 1) : elements[j] # element
         IN SubSeq(elements, 1, i - 1) \o SubSeq(elements, i + 1, Len(elements))
    ELSE elements

\* element.remove()
remove(page, element) ==
    IF element = Null THEN page
    ELSE [page EXCEPT !.container.children = Without(@, element),
                      !.body = IF element \in Range(page.container.children)
                               THEN @ ELSE Without(@, element)]

\* createLoaderElement(message), with the id showLoader gives it
createLoaderElement(message, id) ==
    [id |-> id, message |-> message, position |-> "absolute", originalPosition |-> "undefined"]

\* dataset.originalPosition: '' where showLoader made the container relative,
\* the container's inline position otherwise
storeOriginalPosition(container) ==
    IF computedPosition(container) \in {"static", ""} THEN ""
    ELSE container.style.position

showLoader(message, container) ==
    LET loaderId == loaderIdOf(IF container = Null THEN Null ELSE document.container)
        cleared == remove(document, getElementById(document, loaderId))
        loaderContainer == createLoaderElement(message, loaderId)
        c == cleared.container
        placed == IF computedPosition(c) \in {"static", ""}
                  THEN [c EXCEPT !.style.position = "relative"]
                  ELSE c
        sized == IF offsetHeight(placed) = 0
                 THEN [placed EXCEPT !.style.minHeight = "200px"]
                 ELSE placed
        shown == IF container # Null
                 THEN [loaderContainer EXCEPT !.originalPosition = storeOriginalPosition(c)]
                 ELSE [loaderContainer EXCEPT !.position = "fixed"]
    IN /\ Called("showLoader", <<message, container>>)
       /\ document' =
              IF container # Null
              THEN [cleared EXCEPT !.keyframes = TRUE,
                                   !.container = [sized EXCEPT !.children = Append(@, shown)]]
              ELSE [cleared EXCEPT !.keyframes = TRUE, !.body = Append(@, shown)]
       /\ positionBefore' = IF container # Null /\ positionBefore = ""
                            THEN computedPosition(document.container)
                            ELSE positionBefore
       /\ trace' = <<>>
       /\ ret' = Returns(shown)
       /\ UNCHANGED <<config, eventListeners, reservedColorsByNeighborhood, calls, queried>>

removeLoader(container) ==
    LET loaderId == loaderIdOf(IF container = Null THEN Null ELSE document.container)
        loader == getElementById(document, loaderId)
        restored ==
            IF loader # Null /\ container # Null /\ loader.originalPosition # "undefined"
            THEN [document EXCEPT !.container.style.position =
                      IF loader.originalPosition = "" THEN "static"
                      ELSE loader.originalPosition]
            ELSE document
    IN /\ Called("removeLoader", <<container>>)
       /\ document' = remove(restored, loader)
       /\ trace' = <<>>
       /\ ret' = ReturnsUndefined
       /\ UNCHANGED <<config, eventListeners, reservedColorsByNeighborhood, calls, queried,
                      positionBefore>>

\* The containers of the model: with and without a data-id, positioned
\* inline, by the stylesheet or not at all, empty or not
Positions == {"static", "relative", "absolute"}
Containers ==
    { ContainerElement(id, stylePosition, sheetPosition, contentHeight) :
        id \in {"", "c1"}, stylePosition \in Positions \cup {""},
        sheetPosition \in Positions, contentHeight \in {0, 100} }
TheContainer == [kind |-> "Element"]
ContainerArgs == {Null, TheContainer}
Messages == {"Loading..."}

InitLoader ==
    /\ config = InitialConfig
    /\ eventListeners = [k \in EventTypes |-> <<>>]
    /\ reservedColorsByNeighborhood = <<>>
    /\ lastOp = [name |-> "constructor", args |-> <<>>]
    /\ trace = <<>>
    /\ ret = ReturnsUndefined
    /\ calls = 0
    /\ queried = <<>>
    /\ \E container \in Containers : document = PageOf(container)
    /\ positionBefore = ""

NextLoader ==
    \/ \E message \in Messages, container \in ContainerArgs : showLoader(message, container)
    \/ \E container \in ContainerArgs : removeLoader(container)

SpecLoader == InitLoader /\ [][NextLoader]_vars

\* The loader elements carrying the id of the container's loader
LoadersOfContainer ==
    {i \in DOMAIN ElementsOf(document) :
        ElementsOf(document)[i].id = loaderIdOf(document.container)}

\* C39: whatever showLoader / removeLoader calls were made on a container, at
\* most one loader element with the container's loader id exists, and after
\* a removeLoader(container) the container's effective position (its inline
\* position, else the stylesheet's) is the one it had before the first
\* showLoader on it.
C39_OneLoaderAndPositionRestored ==
    /\ Cardinality(LoadersOfContainer) <= 1
    /\ (lastOp.name = "removeLoader" /\ lastOp.args[1] # Null /\ positionBefore # "") =>
          computedPosition(document.container) = positionBefore

====
